---- MODULE Spec2Model ----
(***************************************************************************)
(* Scoring engine (ScoringService) and aggregation engine                  *)
(* (DashboardService) of the TrackerRMS / HubSpot revenue attribution app. *)
(*                                                                         *)
(* The services are synchronous functions over plain JavaScript values.    *)
(* A state of the model is one call: the function called (op), the         *)
(* arguments it was given (input) and what it returned or raised (output). *)
(*                                                                         *)
(* Around them: the sync orchestrator (SyncService) writing CRM deals, the *)
(* TrackerRMS webhooks, the dashboard routes and the OAuth token store,    *)
(* whose handlers suspend at every await and so interleave.                *)
(***************************************************************************)
EXTENDS Integers, Sequences, FiniteSets, TLC

VARIABLES
    op,              \* the function called, or the step a handler is at
    input,           \* the arguments or the request
    output,          \* what was returned, raised or answered
    placementsAfter, \* the caller's placement list once the call is over
    deals,           \* the CRM's deals, in creation order
    crmCalls,        \* the calls made to the CRM and to TrackerRMS, in order
    tasks,           \* the requests in flight, each with its position
    tokenStore,      \* oauth.js tokenStore: the Map's entries in insertion order
    session,         \* req.session of the browser session
    clock,           \* Date.now(), in minutes
    ledger           \* what has happened so far, kept to state the claims

scoringVars == <<op, input, output, placementsAfter>>
integrationVars == <<deals, crmCalls, tasks, tokenStore, session, clock, ledger>>
vars == <<op, input, output, placementsAfter,
          deals, crmCalls, tasks, tokenStore, session, clock, ledger>>

\* Nothing of the integration layer takes part in a call of the engines.
IntegrationIdle ==
    /\ deals = <<>>
    /\ crmCalls = <<>>
    /\ tasks = <<>>
    /\ tokenStore = <<>>
    /\ session = <<>>
    /\ clock = 0
    /\ ledger = <<>>

----------------------------------------------------------------------------
(* Bounds of the model.                                                    *)

\* A Date holds milliseconds; the model counts time in ticks, TicksPerDay
\* ticks to the 24-hour day, so that fractional days and rounding ties occur.
TicksPerDay == 4
\* Timestamps range over 0 .. MaxDay days.
MaxDay == 48
\* Small money amounts, where ratios hit rounding ties.
MaxRevenue == 16
MaxMargin == 9
MaxCost == 3
\* Caller-supplied weights range over 0 .. MaxWeight tenths.
MaxWeight == 5
\* Scores passed to calculateOverallScore are the multiples of ScoreStep.
ScoreStep == 5
\* getScoreTier is called with scores from -ScoreMargin to 100 + ScoreMargin.
ScoreMargin == 5
\* Longest placement list handed to a batch or dashboard function.
MaxPlacements == 3
\* The most records getJobs or getPlacements answers with.
MaxRecords == 3
\* The most calls of storeTokens and removeTokens in a row.
MaxStoreCalls == 4

----------------------------------------------------------------------------
(* JavaScript values.  A primitive is a record [tag, n, s]; an object is a *)
(* record whose tag is "object" and whose other fields are its properties  *)
(* (a property that is not set holds Undefined).                           *)

Undefined == [tag |-> "undefined", n |-> 0, s |-> ""]
Null == [tag |-> "null", n |-> 0, s |-> ""]
Num(x) == [tag |-> "number", n |-> x, s |-> ""]
\* A string that is not a date; Str("") is the empty string.
Str(x) == [tag |-> "string", n |-> 0, s |-> x]
\* The ISO-8601 string of the instant t (in ticks since the epoch).
DateStr(t) == [tag |-> "string", n |-> t, s |-> "ISO-8601"]

\* ToBoolean: undefined, null, 0 and "" are falsy, everything else truthy.
Truthy(v) ==
    CASE v.tag = "undefined" -> FALSE
      [] v.tag = "null" -> FALSE
      [] v.tag = "number" -> v.n # 0
      [] v.tag = "string" -> v.s # ""
      [] OTHER -> TRUE

\* a || b
Or(a, b) == IF Truthy(a) THEN a ELSE b

\* (v || 0) for a numeric, missing or null property: the number it yields.
OrZero(v) == IF Truthy(v) THEN v.n ELSE 0

\* new Date(v).getTime(): NaN for undefined and for a string that is no date,
\* the epoch for null, the instant itself for a number or an ISO string.
NaNTime == [valid |-> FALSE, time |-> 0]
NewDate(v) ==
    CASE v.tag = "undefined" -> NaNTime
      [] v.tag = "null" -> [valid |-> TRUE, time |-> 0]
      [] v.tag = "number" -> [valid |-> TRUE, time |-> v.n]
      [] v.tag = "string" /\ v.s = "ISO-8601" -> [valid |-> TRUE, time |-> v.n]
      [] OTHER -> NaNTime

Max(a, b) == IF a >= b THEN a ELSE b
Min(a, b) == IF a <= b THEN a ELSE b

\* Math.floor(num / den): the quotient cut down to an integer.
MathFloor(num, den) ==
    IF den > 0 THEN num \div den ELSE (0 - num) \div (0 - den)
\* Math.round(num / den): the nearest integer, a tie going up (towards +Infinity).
MathRound(num, den) ==
    IF den > 0 THEN (2 * num + den) \div (2 * den)
               ELSE (2 * (0 - num) + (0 - den)) \div (2 * (0 - den))

\* What a call gives back: a value, or an exception.
Returned(v) == [threw |-> FALSE, value |-> v]
Raised(e) == [threw |-> TRUE, value |-> e]

----------------------------------------------------------------------------
(* ScoringService                                                          *)

\* The score of missing or invalid input.
InvalidScore == 0
VelocityFloor == 10
VelocityCeiling == 100
PointsPerDay == 2

\* A fill recorded before the job was opened scored like invalid input.
NegativeFillScoreAsInvalid == InvalidScore
\* The score of a placement dated before its job was opened.
NegativeFillScore == VelocityCeiling

\* The score decaying without its floor.
velocityPointsUnfloored(ticksToFill) ==
    MathRound(Min(VelocityCeiling * TicksPerDay,
                  100 * TicksPerDay - ticksToFill * PointsPerDay), TicksPerDay)
\* Math.round(Math.max(10, Math.min(100, 100 - daysToFill * 2))), daysToFill
\* being ticksToFill / TicksPerDay.
velocityPoints(ticksToFill) ==
    MathRound(Max(VelocityFloor * TicksPerDay,
                  Min(VelocityCeiling * TicksPerDay,
                      100 * TicksPerDay - ticksToFill * PointsPerDay)), TicksPerDay)

\* calculateVelocityScore(placement, job)
calculateVelocityScore(placement, job) ==
    IF ~Truthy(placement) \/ ~Truthy(job) THEN InvalidScore
    ELSE LET jobCreatedDate == NewDate(Or(job.createdAt, job.openDate))
             placementDate == NewDate(Or(placement.startDate, placement.createdAt))
         IN  IF ~jobCreatedDate.valid \/ ~placementDate.valid THEN InvalidScore
             ELSE LET ticksToFill == placementDate.time - jobCreatedDate.time
                  IN  IF ticksToFill < 0 THEN NegativeFillScore
                      ELSE velocityPoints(ticksToFill)

RoiCeiling == 100
RoiFloor == 0
RoiDivisor == 5
MarginFactor == 2

\* The margin percentage capped but not doubled.
marginProxyUndoubled(revenue, margin) ==
    Min(RoiCeiling, IF revenue > 0 THEN MathRound(margin * 100, revenue) ELSE 0)
\* Math.min(100, Math.round(marginPercentage * 2)), marginPercentage being
\* margin / revenue * 100 for a positive revenue and 0 otherwise.
marginProxy(revenue, margin) ==
    Min(RoiCeiling,
        IF revenue > 0 THEN MathRound(margin * 100 * MarginFactor, revenue) ELSE 0)

\* The ROI percentage taken as the score, capped and floored.
roiPointsUndivided(revenue, totalCost) ==
    Min(RoiCeiling, Max(RoiFloor, MathRound((revenue - totalCost) * 100, totalCost)))
\* Math.min(100, Math.max(0, Math.round(roi / 5))), roi being
\* (revenue - totalCost) / totalCost * 100.
roiPoints(revenue, totalCost) ==
    Min(RoiCeiling,
        Max(RoiFloor, MathRound((revenue - totalCost) * 100, totalCost * RoiDivisor)))

\* calculateROIScore(placement, attributionData = {})
calculateROIScore(placement, attributionArg) ==
    IF ~Truthy(placement) THEN InvalidScore
    ELSE LET attributionData ==
                 IF attributionArg.tag = "undefined"
                     THEN [tag |-> "object", marketingCost |-> Undefined,
                           salesCost |-> Undefined]
                     ELSE attributionArg
         IN  \* reading a property of null raises a TypeError, which the catch turns into 0
             IF attributionData.tag = "null" THEN InvalidScore
             ELSE LET revenue == OrZero(placement.revenue)
                      margin == OrZero(placement.margin)
                      marketingCost == OrZero(attributionData.marketingCost)
                      salesCost == OrZero(attributionData.salesCost)
                      totalCost == marketingCost + salesCost
                  IN  IF totalCost = 0
                          THEN marginProxy(revenue, margin)
                          ELSE roiPoints(revenue, totalCost)

\* Weights are counted in tenths: the default { velocity: 0.4, roi: 0.6 }.
DefaultVelocityWeight == 4
DefaultRoiWeight == 6
DefaultWeights ==
    [tag |-> "object", velocity |-> Num(DefaultVelocityWeight), roi |-> Num(DefaultRoiWeight)]

\* The raw weights (tenths) used as they are.
normalizeWeightsRaw(weights) ==
    [velocity |-> [num |-> OrZero(weights.velocity), den |-> 10],
     roi |-> [num |-> OrZero(weights.roi), den |-> 10]]
\* normalizeWeights(weights): each effective weight as a fraction num / den.
normalizeWeights(weights) ==
    LET total == weights.velocity.n + weights.roi.n
    IN  IF total = 0
            THEN [velocity |-> [num |-> 1, den |-> 2], roi |-> [num |-> 1, den |-> 2]]
            ELSE [velocity |-> [num |-> OrZero(weights.velocity), den |-> total],
                  roi |-> [num |-> OrZero(weights.roi), den |-> total]]

\* calculateOverallScore(velocityScore, roiScore, weights = { velocity: 0.4, roi: 0.6 })
calculateOverallScore(velocityScore, roiScore, weightsArg) ==
    LET weights == IF weightsArg.tag = "undefined" THEN DefaultWeights ELSE weightsArg
        normalizedWeights == normalizeWeights(weights)
        v == normalizedWeights.velocity
        r == normalizedWeights.roi
    IN  MathRound(velocityScore * v.num * r.den + roiScore * r.num * v.den,
                  v.den * r.den)

ExcellentMin == 90
GoodMin == 75
AverageMin == 50
BelowAverageMin == 25

\* The thresholds taken as exclusive lower bounds.
getScoreTierStrict(score) ==
    IF score > ExcellentMin THEN "excellent"
    ELSE IF score > GoodMin THEN "good"
    ELSE IF score > AverageMin THEN "average"
    ELSE IF score > BelowAverageMin THEN "below_average"
    ELSE "poor"
\* getScoreTier(score)
getScoreTier(score) ==
    IF score >= ExcellentMin THEN "excellent"
    ELSE IF score >= GoodMin THEN "good"
    ELSE IF score >= AverageMin THEN "average"
    ELSE IF score >= BelowAverageMin THEN "below_average"
    ELSE "poor"

\* array.reduce((a, b) => a + b, 0)
RECURSIVE Sum(_)
Sum(numbers) == IF numbers = <<>> THEN 0 ELSE Head(numbers) + Sum(Tail(numbers))

\* The service line taken as the key with no default for a missing one.
serviceLineOfRaw(placement) == placement.serviceLine.s
\* The property key a service line is grouped under:
\* placement.serviceLine || 'Unassigned'.
serviceLineOf(placement) == Or(placement.serviceLine, Str("Unassigned")).s

\* The position of the entry keyed name in an object's entries (kept in
\* insertion order), 0 when the object has no such key.
KeyIndex(entries, name) ==
    IF \E i \in 1..Len(entries) : entries[i].serviceLine = name
        THEN CHOOSE i \in 1..Len(entries) : entries[i].serviceLine = name
        ELSE 0

\* One turn of the first loop of calculateServiceLineAttribution.
attributePlacement(attribution, placement) ==
    LET serviceLine == serviceLineOf(placement)
        created ==
            IF KeyIndex(attribution, serviceLine) = 0
                THEN Append(attribution,
                            [serviceLine |-> serviceLine, placementCount |-> 0,
                             totalRevenue |-> 0, totalMargin |-> 0,
                             averageVelocity |-> 0, velocityScores |-> <<>>])
                ELSE attribution
        i == KeyIndex(created, serviceLine)
    IN  [created EXCEPT ![i] =
            [@ EXCEPT !.placementCount = @ + 1,
                      !.totalRevenue = @ + OrZero(placement.revenue),
                      !.totalMargin = @ + OrZero(placement.margin),
                      !.velocityScores =
                          IF Truthy(placement.velocityScore)
                              THEN Append(@, placement.velocityScore.n)
                              ELSE @]]

RECURSIVE attributeAll(_, _)
attributeAll(attribution, placements) ==
    IF placements = <<>> THEN attribution
    ELSE attributeAll(attributePlacement(attribution, Head(placements)), Tail(placements))

\* The second loop: the average is set and the list of scores deleted.
averageGroup(data) ==
    [serviceLine |-> data.serviceLine,
     placementCount |-> data.placementCount,
     totalRevenue |-> data.totalRevenue,
     totalMargin |-> data.totalMargin,
     averageVelocity |->
         IF Len(data.velocityScores) > 0
             THEN MathRound(Sum(data.velocityScores), Len(data.velocityScores))
             ELSE data.averageVelocity]

\* calculateServiceLineAttribution(placements): the entries of the object it
\* returns, in key order.
calculateServiceLineAttribution(placements) ==
    LET attribution == attributeAll(<<>>, placements)
    IN  [i \in 1..Len(attribution) |-> averageGroup(attribution[i])]

\* The callback of batchCalculateScores: the placement spread into a new
\* object that carries the three scores.
scorePlacement(placement) ==
    LET velocityScore == calculateVelocityScore(placement, placement.job)
        roiScore == calculateROIScore(placement, placement.attribution)
        overallScore == calculateOverallScore(velocityScore, roiScore, Undefined)
    IN  [placement EXCEPT !.velocityScore = Num(velocityScore),
                          !.roiScore = Num(roiScore),
                          !.overallScore = Num(overallScore)]

\* batchCalculateScores(placements)
batchCalculateScores(placements) ==
    [i \in 1..Len(placements) |-> scorePlacement(placements[i])]

\* The caller's list had the scores been assigned to its own records.
placementsScoredInPlace(placements) == batchCalculateScores(placements)
\* The caller's list once batchCalculateScores has returned: map builds a new
\* array and its callback a new object, and the callee methods only read.
placementsAfterScoring(placements) == placements

\* The caller's list once calculateServiceLineAttribution has returned: the
\* loop only reads the placements.
placementsAfterAttribution(placements) == placements

----------------------------------------------------------------------------
(* DashboardService                                                        *)

\* [seq[1].field, seq[2].field, ...] restricted to numbers: seq.map(...)
SeqMap(Op(_), seq) == [i \in 1..Len(seq) |-> Op(seq[i])]

BucketLabels ==
    {"excellent (90-100)", "good (75-89)", "average (50-74)",
     "below_average (25-49)", "poor (0-24)"}

\* The chain with a score on a threshold sent to the bucket below.
bucketOfStrict(score) ==
    IF score > ExcellentMin THEN "excellent (90-100)"
    ELSE IF score > GoodMin THEN "good (75-89)"
    ELSE IF score > AverageMin THEN "average (50-74)"
    ELSE IF score > BelowAverageMin THEN "below_average (25-49)"
    ELSE "poor (0-24)"
\* The bucket one score is counted in: the if / else chain of the loop.
bucketOf(score) ==
    IF score >= ExcellentMin THEN "excellent (90-100)"
    ELSE IF score >= GoodMin THEN "good (75-89)"
    ELSE IF score >= AverageMin THEN "average (50-74)"
    ELSE IF score >= BelowAverageMin THEN "below_average (25-49)"
    ELSE "poor (0-24)"

\* calculateScoreDistribution(scores)
calculateScoreDistribution(scores) ==
    [label \in BucketLabels |->
        Cardinality({i \in 1..Len(scores) : bucketOf(scores[i]) = label})]

\* getServiceLineAttributionData(placements)
getServiceLineAttributionData(placements) ==
    LET attribution == calculateServiceLineAttribution(placements)
        LineRevenue(line) == line.totalRevenue
        LineMargin(line) == line.totalMargin
        LineLabel(line) == line.serviceLine
        LineCount(line) == line.placementCount
        totalRevenue == Sum(SeqMap(LineRevenue, attribution))
        totalMargin == Sum(SeqMap(LineMargin, attribution))
        WithPercentage(line) ==
            [serviceLine |-> line.serviceLine,
             placementCount |-> line.placementCount,
             totalRevenue |-> line.totalRevenue,
             totalMargin |-> line.totalMargin,
             averageVelocity |-> line.averageVelocity,
             revenuePercentage |->
                 IF totalRevenue > 0
                     THEN MathRound(line.totalRevenue * 100, totalRevenue)
                     ELSE 0]
    IN  [summary |->
             [totalRevenue |-> totalRevenue,
              totalMargin |-> totalMargin,
              totalPlacements |-> Len(placements),
              averageMarginPercentage |->
                  IF totalRevenue > 0 THEN MathRound(totalMargin * 100, totalRevenue)
                                      ELSE 0],
         serviceLines |-> SeqMap(WithPercentage, attribution),
         chartData |->
             [labels |-> SeqMap(LineLabel, attribution),
              revenue |-> SeqMap(LineRevenue, attribution),
              placements |-> SeqMap(LineCount, attribution)]]

\* The days of 1970 on which a month begins, counted from the epoch.
MonthStarts == <<0, 31, 59, 90, 120, 151, 181, 212, 243, 273, 304, 334>>

\* new Date(t).toISOString().substring(0, 7) for an instant of 1970: the key
\* "1970-MM" as the number 1970MM, whose order is the order of the strings.
MonthKey(t) ==
    LET day == t \div TicksPerDay
    IN  197000 + Cardinality({m \in 1..Len(MonthStarts) : MonthStarts[m] <= day})

\* The fill date of a placement, as the trend loop reads it.
trendDate(placement) == NewDate(Or(placement.startDate, placement.createdAt))

\* One turn of the loop over placementsWithScores; acc holds
\* velocityByServiceLine (entries in key order) and velocityTrend.
velocityStep(acc, placement) ==
    LET serviceLine == serviceLineOf(placement)
        byLine ==
            IF KeyIndex(acc.byLine, serviceLine) = 0
                THEN Append(acc.byLine,
                            [serviceLine |-> serviceLine, scores |-> <<>>, count |-> 0])
                ELSE acc.byLine
        i == KeyIndex(byLine, serviceLine)
        month == MonthKey(trendDate(placement).time)
        existing == {k \in 1..Len(acc.trend) : acc.trend[k].month = month}
    IN  [byLine |-> [byLine EXCEPT ![i] =
                        [@ EXCEPT !.scores = Append(@, placement.velocityScore.n),
                                  !.count = @ + 1]],
         trend |-> IF existing # {}
                       THEN [acc.trend EXCEPT ![CHOOSE k \in existing : TRUE] =
                                [@ EXCEPT !.scores = Append(@, placement.velocityScore.n)]]
                       ELSE Append(acc.trend,
                                   [month |-> month,
                                    scores |-> <<placement.velocityScore.n>>])]

RECURSIVE velocityLoop(_, _)
velocityLoop(acc, placements) ==
    IF placements = <<>> THEN acc
    ELSE velocityLoop(velocityStep(acc, Head(placements)), Tail(placements))

\* The trend left in the order its months were first met.
sortByMonthNone(trend) == trend
\* velocityTrend.sort((a, b) => a.month.localeCompare(b.month))
RECURSIVE sortByMonth(_)
sortByMonth(trend) ==
    IF trend = <<>> THEN <<>>
    ELSE LET first == CHOOSE k \in 1..Len(trend) :
                          \A j \in 1..Len(trend) :
                              \/ trend[k].month < trend[j].month
                              \/ trend[k].month = trend[j].month /\ k <= j
             rest == [j \in 1..(Len(trend) - 1) |->
                         IF j < first THEN trend[j] ELSE trend[j + 1]]
         IN  <<trend[first]>> \o sortByMonth(rest)

\* The tier of the quotient sum / count: the thresholds being integers, the
\* quotient reaches a threshold exactly when its integer part does.
tierOfQuotient(sum, count) == getScoreTier(sum \div count)

\* getPlacementVelocityData(placements)
getPlacementVelocityData(placements) ==
    LET placementsWithScores == batchCalculateScores(placements)
        VelocityOf(p) == p.velocityScore.n
        scores == SeqMap(VelocityOf, placementsWithScores)
        acc == velocityLoop([byLine |-> <<>>, trend |-> <<>>], placementsWithScores)
        LineStats(data) ==
            [serviceLine |-> data.serviceLine,
             averageVelocity |-> MathRound(Sum(data.scores), Len(data.scores)),
             placementCount |-> data.count,
             tier |-> tierOfQuotient(Sum(data.scores), Len(data.scores))]
        TrendPoint(t) ==
            [month |-> t.month,
             averageVelocity |-> MathRound(Sum(t.scores), Len(t.scores))]
        overallAverage ==
            IF Len(placementsWithScores) > 0
                THEN MathRound(Sum(scores), Len(placementsWithScores))
                ELSE 0
    IN  \* toISOString() raises a RangeError on an invalid Date
        IF \E i \in 1..Len(placements) : ~trendDate(placements[i]).valid
            THEN Raised("RangeError")
            ELSE Returned(
                   [summary |->
                        [overallAverageVelocity |-> overallAverage,
                         tier |-> getScoreTier(overallAverage),
                         totalPlacements |-> Len(placements)],
                    byServiceLine |-> SeqMap(LineStats, acc.byLine),
                    trend |-> SeqMap(TrendPoint, sortByMonth(acc.trend)),
                    distribution |-> calculateScoreDistribution(scores)])

\* placement.attribution?.marketingCost || 0 and its salesCost twin: the
\* optional chain yields undefined for a null or missing attribution.
marketingCostOf(placement) ==
    IF placement.attribution.tag \in {"undefined", "null"} THEN 0
    ELSE OrZero(placement.attribution.marketingCost)
\* The sales cost read from the marketing cost.
salesCostAsMarketing(placement) == marketingCostOf(placement)
salesCostOf(placement) ==
    IF placement.attribution.tag \in {"undefined", "null"} THEN 0
    ELSE OrZero(placement.attribution.salesCost)

\* One turn of the loop with no lookup of the line: an entry per placement.
roiStepUnkeyed(byLine, placement) ==
    Append(byLine,
           [serviceLine |-> serviceLineOf(placement),
            revenue |-> OrZero(placement.revenue),
            cost |-> marketingCostOf(placement) + salesCostOf(placement),
            scores |-> <<placement.roiScore.n>>])
\* One turn of the loop that fills roiByServiceLine (entries in key order).
roiStep(byLine, placement) ==
    LET serviceLine == serviceLineOf(placement)
        created ==
            IF KeyIndex(byLine, serviceLine) = 0
                THEN Append(byLine,
                            [serviceLine |-> serviceLine, revenue |-> 0, cost |-> 0,
                             scores |-> <<>>])
                ELSE byLine
        i == KeyIndex(created, serviceLine)
    IN  [created EXCEPT ![i] =
            [@ EXCEPT !.revenue = @ + OrZero(placement.revenue),
                      !.cost = @ + marketingCostOf(placement) + salesCostOf(placement),
                      !.scores = Append(@, placement.roiScore.n)]]

RECURSIVE roiLoop(_, _)
roiLoop(byLine, placements) ==
    IF placements = <<>> THEN byLine
    ELSE roiLoop(roiStep(byLine, Head(placements)), Tail(placements))

\* getROIDashboardData(placements)
getROIDashboardData(placements) ==
    LET placementsWithScores == batchCalculateScores(placements)
        RevenueOf(p) == OrZero(p.revenue)
        MarginOf(p) == OrZero(p.margin)
        RoiOf(p) == p.roiScore.n
        totalRevenue == Sum(SeqMap(RevenueOf, placements))
        totalMargin == Sum(SeqMap(MarginOf, placements))
        totalMarketingCost == Sum(SeqMap(marketingCostOf, placements))
        totalSalesCost == Sum(SeqMap(salesCostOf, placements))
        totalCost == totalMarketingCost + totalSalesCost
        overallROI ==
            IF totalCost > 0 THEN MathRound((totalRevenue - totalCost) * 100, totalCost)
                             ELSE 0
        scores == SeqMap(RoiOf, placementsWithScores)
        averageROIScore ==
            IF Len(placementsWithScores) > 0
                THEN MathRound(Sum(scores), Len(placementsWithScores))
                ELSE 0
        LineStats(data) ==
            [serviceLine |-> data.serviceLine,
             revenue |-> data.revenue,
             cost |-> data.cost,
             roi |-> IF data.cost > 0
                         THEN MathRound((data.revenue - data.cost) * 100, data.cost)
                         ELSE 0,
             averageScore |-> MathRound(Sum(data.scores), Len(data.scores))]
    IN  [summary |->
             [totalRevenue |-> totalRevenue,
              totalMargin |-> totalMargin,
              totalCost |-> totalCost,
              overallROI |-> overallROI,
              averageROIScore |-> averageROIScore,
              tier |-> getScoreTier(averageROIScore)],
         byServiceLine |-> SeqMap(LineStats, roiLoop(<<>>, placementsWithScores)),
         costBreakdown |-> [marketing |-> totalMarketingCost, sales |-> totalSalesCost],
         distribution |-> calculateScoreDistribution(scores)]

\* getExecutiveDashboardData(placements, jobs = []) at the instant now; an
\* exception of the velocity report leaves the function.
getExecutiveDashboardData(placements, jobsArg, now) ==
    LET jobs == IF jobsArg.tag = "undefined" THEN <<>> ELSE jobsArg.items
        placementVelocity == getPlacementVelocityData(placements)
    IN  IF placementVelocity.threw THEN placementVelocity
        ELSE Returned(
               [serviceLineAttribution |-> getServiceLineAttributionData(placements),
                placementVelocity |-> placementVelocity.value,
                roi |-> getROIDashboardData(placements),
                overview |->
                    [totalJobs |-> Len(jobs),
                     totalPlacements |-> Len(placements),
                     fillRate |-> IF Len(jobs) > 0
                                      THEN MathRound(Len(placements) * 100, Len(jobs))
                                      ELSE 0,
                     generatedAt |-> DateStr(now)]])

----------------------------------------------------------------------------
(* Arguments the callers pass.                                             *)

MaxTick == MaxDay * TicksPerDay

\* A timestamp property: not set, null, empty, not a date, or an ISO string.
NoDates == {Undefined, Null, Str(""), Str("not a date")}
AllDates == {DateStr(t) : t \in 0..MaxTick}
\* The instants a job opens at.
OpenDates == {DateStr(0), DateStr(TicksPerDay + 1), DateStr(MaxTick)}

Job(createdAt, openDate) ==
    [tag |-> "object", createdAt |-> createdAt, openDate |-> openDate]

Attribution(marketingCost, salesCost) ==
    [tag |-> "object", marketingCost |-> marketingCost, salesCost |-> salesCost]

Placement(startDate, createdAt, revenue, margin, serviceLine, job, attribution, velocityScore) ==
    [tag |-> "object", startDate |-> startDate, createdAt |-> createdAt,
     revenue |-> revenue, margin |-> margin, serviceLine |-> serviceLine,
     job |-> job, attribution |-> attribution, velocityScore |-> velocityScore,
     roiScore |-> Undefined, overallScore |-> Undefined]

\* A placement of which only the timestamps are set.
DatedPlacement(startDate, createdAt) ==
    Placement(startDate, createdAt, Undefined, Undefined, Undefined, Undefined,
              Undefined, Undefined)

\* A placement of which only the money is set.
PaidPlacement(revenue, margin) ==
    Placement(Undefined, Undefined, revenue, margin, Undefined, Undefined,
              Undefined, Undefined)

VelocityPlacements ==
    {Undefined, Null}
    \cup {DatedPlacement(s, c) : s \in NoDates \cup AllDates,
                                 c \in NoDates \cup {DateStr(2 * TicksPerDay)}}

VelocityJobs ==
    {Undefined, Null}
    \cup {Job(c, o) : c \in NoDates \cup OpenDates, o \in NoDates \cup {DateStr(TicksPerDay)}}

Revenues == {Undefined, Null} \cup {Num(x) : x \in (-2..MaxRevenue) \cup {10000}}
Margins == {Undefined} \cup {Num(x) : x \in (-2..MaxMargin) \cup {2000, 3000}}
Costs == {Undefined} \cup {Num(x) : x \in (-1..MaxCost) \cup {500, 1000}}

RoiPlacements == {Undefined, Null} \cup {PaidPlacement(r, m) : r \in Revenues, m \in Margins}
RoiAttributions == {Undefined, Null} \cup {Attribution(m, s) : m \in Costs, s \in Costs}

OverallScores == {s \in 0..100 : s % ScoreStep = 0}
\* A weight: a number of tenths, or a key that is not set.
WeightValues == {Undefined} \cup {Num(a) : a \in 0..MaxWeight}
CallerWeights ==
    {Undefined}
    \cup {[tag |-> "object", velocity |-> a, roi |-> b] :
              a \in WeightValues, b \in WeightValues}

TierScores == (0 - ScoreMargin)..(100 + ScoreMargin)

\* The placements of the lists handed to calculateServiceLineAttribution and
\* getServiceLineAttributionData: a service line or none, money or none, and
\* a velocity score already there or not.
GroupedPlacement(serviceLine, revenue, margin, velocityScore) ==
    Placement(Undefined, Undefined, revenue, margin, serviceLine, Undefined,
              Undefined, velocityScore)
AttributionSamples ==
    {GroupedPlacement(Str("IT"), Num(5000), Num(1000), Undefined),
     GroupedPlacement(Str("IT"), Num(7000), Num(1500), Num(80)),
     GroupedPlacement(Str("IT"), Num(3), Num(-1), Num(95)),
     GroupedPlacement(Str("Healthcare"), Num(8000), Num(2000), Num(0)),
     GroupedPlacement(Str("Healthcare"), Undefined, Undefined, Num(45)),
     GroupedPlacement(Str("Unassigned"), Num(1), Num(1), Num(10)),
     GroupedPlacement(Undefined, Num(5000), Num(1000), Undefined),
     GroupedPlacement(Null, Num(2), Undefined, Num(100)),
     GroupedPlacement(Str(""), Num(0), Num(0), Num(60)),
     GroupedPlacement(Str("Healthcare"), Num(-8), Num(-2), Undefined)}

\* The placements of the lists handed to batchCalculateScores and to the
\* dashboard builders: complete records and records with parts missing.
OpenedJob == Job(DateStr(0), Undefined)
BatchSamples ==
    {Placement(DateStr(5 * TicksPerDay), Undefined, Num(10000), Num(2000), Str("IT"),
               OpenedJob, Undefined, Undefined),
     Placement(DateStr(5 * TicksPerDay + 2), DateStr(0), Num(15), Num(4), Str("IT"),
               OpenedJob, Attribution(Num(2), Num(1)), Undefined),
     Placement(DateStr(MaxTick - TicksPerDay), Undefined, Num(8), Num(-2), Str("Healthcare"),
               Job(Undefined, DateStr(TicksPerDay)), Attribution(Num(1), Undefined),
               Undefined),
     Placement(Undefined, DateStr(33 * TicksPerDay), Num(10000), Num(3000),
               Str("Healthcare"), OpenedJob, Attribution(Num(1000), Num(500)), Num(7)),
     Placement(DateStr(2 * TicksPerDay), Undefined, Num(6), Num(3), Undefined,
               Job(DateStr(MaxTick), Undefined), Attribution(Num(3), Num(3)), Undefined),
     Placement(DateStr(20 * TicksPerDay), Undefined, Num(4), Num(1), Undefined,
               Null, Null, Undefined),
     Placement(DateStr(TicksPerDay), Undefined, Undefined, Undefined, Str("IT"),
               Undefined, Undefined, Undefined),
     Placement(Undefined, Undefined, Num(12), Num(-3), Str("IT"),
               OpenedJob, Undefined, Undefined),
     Placement(Str("not a date"), Undefined, Num(9), Num(9), Undefined,
               OpenedJob, Attribution(Num(1), Num(1)), Undefined),
     Placement(Null, Null, Undefined, Undefined, Undefined,
               Null, Null, Undefined),
     Placement(DateStr(65 * TicksPerDay), Undefined, Num(-5), Num(-1), Str("Refunds"),
               OpenedJob, Attribution(Num(-2), Undefined), Undefined)}

\* Lists of at most MaxPlacements elements of a set.
ListsOf(samples) == UNION {[1..n -> samples] : n \in 0..MaxPlacements}

\* The lists of scores handed to calculateScoreDistribution: at most two
\* scores, or the list of the unit test.
ExampleScores == <<100, 95, 80, 60, 30, 10>>
ScoreLists == UNION {[1..n -> TierScores] : n \in 0..2} \cup {ExampleScores}

\* The jobs argument of getExecutiveDashboardData: left out, or an array.
JobLists ==
    {Undefined}
    \cup {[tag |-> "object", items |-> [i \in 1..n |-> OpenedJob]] : n \in 0..2}

----------------------------------------------------------------------------
(* The calls.                                                              *)

Init ==
    /\ op = "idle"
    /\ input = <<>>
    /\ output = <<>>
    /\ placementsAfter = <<>>
    /\ IntegrationIdle

CalculateVelocityScore ==
    /\ op = "idle"
    /\ \E placement \in VelocityPlacements, job \in VelocityJobs :
          /\ input' = [placement |-> placement, job |-> job]
          /\ output' = Returned(calculateVelocityScore(placement, job))
    /\ op' = "calculateVelocityScore"
    /\ placementsAfter' = <<>>
    /\ UNCHANGED integrationVars

CalculateROIScore ==
    /\ op = "idle"
    /\ \E placement \in RoiPlacements, attribution \in RoiAttributions :
          /\ input' = [placement |-> placement, attribution |-> attribution]
          /\ output' = Returned(calculateROIScore(placement, attribution))
    /\ op' = "calculateROIScore"
    /\ placementsAfter' = <<>>
    /\ UNCHANGED integrationVars

CalculateOverallScore ==
    /\ op = "idle"
    /\ \E velocityScore \in OverallScores, roiScore \in OverallScores,
          weights \in CallerWeights :
          /\ input' = [velocityScore |-> velocityScore, roiScore |-> roiScore,
                       weights |-> weights]
          /\ output' = Returned(calculateOverallScore(velocityScore, roiScore, weights))
    /\ op' = "calculateOverallScore"
    /\ placementsAfter' = <<>>
    /\ UNCHANGED integrationVars

GetScoreTier ==
    /\ op = "idle"
    /\ \E score \in TierScores :
          /\ input' = [score |-> score]
          /\ output' = Returned(getScoreTier(score))
    /\ op' = "getScoreTier"
    /\ placementsAfter' = <<>>
    /\ UNCHANGED integrationVars

CalculateServiceLineAttribution ==
    /\ op = "idle"
    /\ \E placements \in ListsOf(AttributionSamples) :
          /\ input' = [placements |-> placements]
          /\ output' = Returned(calculateServiceLineAttribution(placements))
          /\ placementsAfter' = placementsAfterAttribution(placements)
    /\ op' = "calculateServiceLineAttribution"
    /\ UNCHANGED integrationVars

BatchCalculateScores ==
    /\ op = "idle"
    /\ \E placements \in ListsOf(BatchSamples) :
          /\ input' = [placements |-> placements]
          /\ output' = Returned(batchCalculateScores(placements))
          /\ placementsAfter' = placementsAfterScoring(placements)
    /\ op' = "batchCalculateScores"
    /\ UNCHANGED integrationVars

GetServiceLineAttributionData ==
    /\ op = "idle"
    /\ \E placements \in ListsOf(AttributionSamples) :
          /\ input' = [placements |-> placements]
          /\ output' = Returned(getServiceLineAttributionData(placements))
          /\ placementsAfter' = placementsAfterAttribution(placements)
    /\ op' = "getServiceLineAttributionData"
    /\ UNCHANGED integrationVars

GetPlacementVelocityData ==
    /\ op = "idle"
    /\ \E placements \in ListsOf(BatchSamples) :
          /\ input' = [placements |-> placements]
          /\ output' = getPlacementVelocityData(placements)
          /\ placementsAfter' = placementsAfterScoring(placements)
    /\ op' = "getPlacementVelocityData"
    /\ UNCHANGED integrationVars

GetROIDashboardData ==
    /\ op = "idle"
    /\ \E placements \in ListsOf(BatchSamples) :
          /\ input' = [placements |-> placements]
          /\ output' = Returned(getROIDashboardData(placements))
          /\ placementsAfter' = placementsAfterScoring(placements)
    /\ op' = "getROIDashboardData"
    /\ UNCHANGED integrationVars

GetExecutiveDashboardData ==
    /\ op = "idle"
    /\ \E placements \in ListsOf(BatchSamples), jobs \in JobLists, now \in {MaxTick} :
          /\ input' = [placements |-> placements, jobs |-> jobs]
          /\ output' = getExecutiveDashboardData(placements, jobs, now)
          /\ placementsAfter' = placementsAfterScoring(placements)
    /\ op' = "getExecutiveDashboardData"
    /\ UNCHANGED integrationVars

CalculateScoreDistribution ==
    /\ op = "idle"
    /\ \E scores \in ScoreLists :
          /\ input' = [scores |-> scores]
          /\ output' = Returned(calculateScoreDistribution(scores))
    /\ op' = "calculateScoreDistribution"
    /\ placementsAfter' = <<>>
    /\ UNCHANGED integrationVars

Next ==
    \/ CalculateVelocityScore
    \/ CalculateROIScore
    \/ CalculateOverallScore
    \/ GetScoreTier
    \/ CalculateServiceLineAttribution
    \/ BatchCalculateScores
    \/ GetServiceLineAttributionData
    \/ GetPlacementVelocityData
    \/ GetROIDashboardData
    \/ GetExecutiveDashboardData
    \/ CalculateScoreDistribution

Spec == Init /\ [][Next]_vars

----------------------------------------------------------------------------
(* What the claims speak of.                                               *)

IsObject(v) == v.tag = "object"
\* A string that parses to a valid point in time.
IsInstant(v) == v.tag = "string" /\ v.s = "ISO-8601"
\* The fill timestamp: startDate, else createdAt.
FillStamp(placement) == Or(placement.startDate, placement.createdAt)
\* The open timestamp: createdAt, else openDate.
OpenStamp(job) == Or(job.createdAt, job.openDate)

VelocityCall == op = "calculateVelocityScore"
\* A velocity call whose placement and job are there and whose timestamps parse.
DatedVelocityCall ==
    /\ VelocityCall
    /\ IsObject(input.placement) /\ IsObject(input.job)
    /\ IsInstant(FillStamp(input.placement)) /\ IsInstant(OpenStamp(input.job))
TicksToFill == FillStamp(input.placement).n - OpenStamp(input.job).n

RoiCall == op = "calculateROIScore"
\* An ROI call with a placement, and an attribution that is an object or left out.
CostedRoiCall ==
    /\ RoiCall
    /\ IsObject(input.placement)
    /\ input.attribution.tag \in {"object", "undefined"}
InRevenue == OrZero(input.placement.revenue)
InMargin == OrZero(input.placement.margin)
InTotalCost ==
    IF IsObject(input.attribution)
        THEN OrZero(input.attribution.marketingCost) + OrZero(input.attribution.salesCost)
        ELSE 0

----------------------------------------------------------------------------
\* C1: every score the scoring engine produces is an integer between 0 and
\* 100 inclusive, whatever numeric revenue, margin and costs and whatever
\* timestamps it is given.
ScoresWithinRange ==
    /\ VelocityCall => output.value \in 0..100
    /\ RoiCall => output.value \in 0..100
    /\ op = "calculateOverallScore" => output.value \in 0..100
    /\ op = "batchCalculateScores" =>
           \A i \in 1..Len(output.value) :
               /\ output.value[i].velocityScore.n \in 0..100
               /\ output.value[i].roiScore.n \in 0..100
               /\ output.value[i].overallScore.n \in 0..100

\* C2: with both timestamps valid and daysToFill >= 0 the velocity score is
\* round(max(10, min(100, 100 - 2 * daysToFill))): 100 for equal timestamps,
\* 10 from 45 days on, and never higher for a later fill of the same job.
VelocityFormula ==
    DatedVelocityCall /\ TicksToFill >= 0 =>
        LET exact == 100 * TicksPerDay - 2 * TicksToFill
            clamped == Max(10 * TicksPerDay, Min(100 * TicksPerDay, exact))
        IN  /\ ~output.threw
            /\ output.value = MathRound(clamped, TicksPerDay)
            /\ TicksToFill = 0 => output.value = 100
            /\ TicksToFill >= 45 * TicksPerDay => output.value = 10
            /\ \A later \in FillStamp(input.placement).n .. MaxTick :
                  later - OpenStamp(input.job).n <= 45 * TicksPerDay =>
                      calculateVelocityScore(DatedPlacement(DateStr(later), Undefined),
                                             input.job) <= output.value

\* A fill 7.25 days after the job opened scores round(85.5) = 86.
VelocityFormulaWitness ==
    /\ DatedVelocityCall
    /\ TicksToFill * 4 = 29 * TicksPerDay
    /\ output.value = 86

\* C3: a fill dated strictly before the job opened scores exactly 100,
\* however far before, and the call does not raise.
NegativeFillScoresHundred ==
    DatedVelocityCall /\ TicksToFill < 0 => ~output.threw /\ output.value = 100

\* A fill dated MaxDay days before the job opened, scored 100.
NegativeFillWitness ==
    /\ DatedVelocityCall
    /\ TicksToFill = 0 - MaxTick
    /\ output.value = 100

\* C4: the velocity score is 0, and nothing is raised, whenever the placement
\* or the job is absent or the fill or the open timestamp is missing or does
\* not parse to a valid point in time.
InvalidInputScoresZero ==
    VelocityCall =>
        LET absent == ~IsObject(input.placement) \/ ~IsObject(input.job)
            unusable == absent \/ ~IsInstant(FillStamp(input.placement))
                               \/ ~IsInstant(OpenStamp(input.job))
        IN  unusable => ~output.threw /\ output.value = 0

\* C5 as stated: with a total cost of 0 the ROI score is
\* min(100, round(2 * margin / revenue * 100)) whenever revenue is non-zero,
\* and 0 when revenue is 0.
MarginProxyForNonZeroRevenue ==
    CostedRoiCall /\ InTotalCost = 0 =>
        output.value = IF InRevenue # 0
                           THEN Min(100, MathRound(2 * InMargin * 100, InRevenue))
                           ELSE 0

\* C5 as amended: with a total cost of 0 the ROI score is
\* min(100, round(2 * margin / revenue * 100)) when revenue is positive and 0
\* when revenue is zero or negative; a margin of at least half a positive
\* revenue scores 100.
MarginProxyForPositiveRevenue ==
    CostedRoiCall /\ InTotalCost = 0 =>
        /\ ~output.threw
        /\ output.value = IF InRevenue > 0
                              THEN Min(100, MathRound(2 * InMargin * 100, InRevenue))
                              ELSE 0
        /\ InRevenue > 0 /\ 2 * InMargin >= InRevenue => output.value = 100

\* Revenue 10000 and margin 2000 with no attribution argument score 40.
MarginProxyWitness ==
    /\ CostedRoiCall
    /\ input.attribution = Undefined
    /\ InRevenue = 10000 /\ InMargin = 2000
    /\ output.value = 40

\* C6: with a total cost above 0 the ROI score is
\* min(100, max(0, round(((revenue - totalCost) / totalCost * 100) / 5))):
\* 0 for revenue below the total cost, 100 for an ROI of 500% or more.
RoiFormula ==
    CostedRoiCall /\ InTotalCost > 0 =>
        LET gain == InRevenue - InTotalCost
        IN  /\ ~output.threw
            /\ output.value = Min(100, Max(0, MathRound(gain * 100, InTotalCost * 5)))
            /\ gain < 0 => output.value = 0
            /\ gain >= 5 * InTotalCost => output.value = 100

\* Revenue 13 against a total cost of 4 is an ROI of 225%, scored 45.
RoiFormulaWitness ==
    /\ CostedRoiCall
    /\ InRevenue = 13 /\ InTotalCost = 4
    /\ output.value = 45

\* A record whose fill timestamp is missing or does not parse.
HasBadFillDate(placement) == ~IsInstant(FillStamp(placement))

\* C7: no single bad record aborts a batch or report: whatever fields the
\* records lack, batchCalculateScores, getPlacementVelocityData,
\* getROIDashboardData and getExecutiveDashboardData return without raising,
\* a record with a bad fill timestamp gets velocity score 0, and every record
\* is scored as it is scored without its siblings.
BadRecordNeverAborts ==
    /\ op \in {"batchCalculateScores", "getPlacementVelocityData",
               "getROIDashboardData", "getExecutiveDashboardData"} => ~output.threw
    /\ op = "batchCalculateScores" =>
           \A i \in 1..Len(input.placements) :
               /\ output.value[i] = batchCalculateScores(<<input.placements[i]>>)[1]
               /\ HasBadFillDate(input.placements[i])
                      => output.value[i].velocityScore.n = 0

TierRank(tier) ==
    CASE tier = "poor" -> 0
      [] tier = "below_average" -> 1
      [] tier = "average" -> 2
      [] tier = "good" -> 3
      [] tier = "excellent" -> 4

\* C9: getScoreTier gives excellent from 90, good for 75..89, average for
\* 50..74, below_average for 25..49 and poor below 25, a boundary value
\* belonging to the higher tier, and a higher score never a lower tier.
TierBands ==
    op = "getScoreTier" =>
        LET score == input.score
        IN  /\ ~output.threw
            /\ output.value \in {"excellent", "good", "average", "below_average", "poor"}
            /\ output.value = "excellent" <=> score >= 90
            /\ output.value = "good" <=> score \in 75..89
            /\ output.value = "average" <=> score \in 50..74
            /\ output.value = "below_average" <=> score \in 25..49
            /\ output.value = "poor" <=> score < 25
            /\ \A higher \in TierScores :
                  higher >= score => TierRank(getScoreTier(higher)) >= TierRank(output.value)

\* Exactly 75 is good.
TierBandsWitness ==
    /\ op = "getScoreTier"
    /\ input.score = 75
    /\ output.value = "good"


\* The group a placement belongs to: its service line, or "Unassigned" when it
\* has none.
GroupOf(placement) ==
    IF placement.serviceLine.tag = "string" /\ placement.serviceLine.s # ""
        THEN placement.serviceLine.s
        ELSE "Unassigned"
RevenueIn(placement) == IF placement.revenue.tag = "number" THEN placement.revenue.n ELSE 0
MarginIn(placement) == IF placement.margin.tag = "number" THEN placement.margin.n ELSE 0

CarriesVelocity(placement) == placement.velocityScore.tag = "number"
VelocityIn(placement) == placement.velocityScore.n

\* C11: each group's averageVelocity is the rounded mean of velocityScore over
\* exactly the placements of the group that carry a velocityScore, whatever
\* its value in 0..100, and 0 when none of the group carries one.
AverageVelocityOverCarriers ==
    op = "calculateServiceLineAttribution" =>
        \A i \in 1..Len(output.value) :
            LET Carrier(p) == GroupOf(p) = output.value[i].serviceLine /\ CarriesVelocity(p)
                carriers == SelectSeq(input.placements, Carrier)
            IN  output.value[i].averageVelocity =
                    IF Len(carriers) > 0
                        THEN MathRound(Sum(SeqMap(VelocityIn, carriers)), Len(carriers))
                        ELSE 0

\* The fields batchCalculateScores sets on each record it returns.
ScoreFields == {"velocityScore", "roiScore", "overallScore"}

\* The dashboard builders.
DashboardCalls ==
    {"getServiceLineAttributionData", "getPlacementVelocityData",
     "getROIDashboardData", "getExecutiveDashboardData"}

\* The properties an object of the model may have, and whether it has one.
PropertiesOf(object) == DOMAIN object \ {"tag"}
HasProperty(object, field) == object[field].tag # "undefined"

\* Record i of the result of batchCalculateScores carries the three scores,
\* the overall score being the default 0.4 / 0.6 blend of the other two.
CarriesScores(record) ==
    /\ \A field \in ScoreFields : record[field].tag = "number"
    /\ record.overallScore.n =
           MathRound(DefaultVelocityWeight * record.velocityScore.n
                         + DefaultRoiWeight * record.roiScore.n,
                     DefaultVelocityWeight + DefaultRoiWeight)

\* The caller's placements are as they were passed once a call that takes a
\* list of placements is over.
InputLeftUnchanged ==
    op \in DashboardCalls \cup {"batchCalculateScores"} =>
        placementsAfter = input.placements

\* C12 (as stated): record i of the result of batchCalculateScores has every
\* field of input placement i with the same value, plus the three scores, in
\* the same length and order; the input is left unchanged by it and by every
\* dashboard builder.
BatchKeepsEveryField ==
    /\ InputLeftUnchanged
    /\ op = "batchCalculateScores" =>
           /\ Len(output.value) = Len(input.placements)
           /\ \A i \in 1..Len(input.placements) :
                  /\ CarriesScores(output.value[i])
                  /\ \A field \in PropertiesOf(input.placements[i]) :
                         HasProperty(input.placements[i], field) =>
                             output.value[i][field] = input.placements[i][field]

\* C12: record i of the result of batchCalculateScores has every field of
\* input placement i other than velocityScore, roiScore and overallScore with
\* the same value (a field the input lacks stays absent), and the three
\* scores as computed, in the same length and order; the input list and its
\* records are left unchanged by it and by every dashboard builder.
BatchKeepsOtherFields ==
    /\ InputLeftUnchanged
    /\ op = "batchCalculateScores" =>
           /\ Len(output.value) = Len(input.placements)
           /\ \A i \in 1..Len(input.placements) :
                  /\ CarriesScores(output.value[i])
                  /\ \A field \in PropertiesOf(input.placements[i]) \ ScoreFields :
                         output.value[i][field] = input.placements[i][field]

\* A list of three placements has been scored, the second of which came with
\* a velocityScore of its own, now replaced in the result and still there in
\* the caller's record.
BatchKeepsOtherFieldsWitness ==
    /\ op = "batchCalculateScores"
    /\ Len(input.placements) = 3
    /\ input.placements[2].velocityScore = Num(7)
    /\ output.value[2].velocityScore = Num(34)
    /\ output.value[2].revenue = Num(10000)
    /\ output.value[1].serviceLine # output.value[3].serviceLine
    /\ placementsAfter[2].velocityScore = Num(7)

\* r is num / den rounded to the nearest integer, a tie going up:
\* r - 1/2 <= num / den < r + 1/2.
RoundsTo(r, num, den) ==
    LET n == IF den > 0 THEN num ELSE 0 - num
        d == IF den > 0 THEN den ELSE 0 - den
    IN  (2 * r - 1) * d <= 2 * n /\ 2 * n < (2 * r + 1) * d

\* part / whole as a rounded percentage, 0 exactly when the whole is 0.
IsPercentageOrZeroAtZero(r, part, whole) ==
    IF whole = 0 THEN r = 0 ELSE RoundsTo(r, part * 100, whole)
\* part / whole as a rounded percentage, 0 when the whole is 0 or negative.
IsPercentageOfPositive(r, part, whole) ==
    IF whole > 0 THEN RoundsTo(r, part * 100, whole) ELSE r = 0

\* The report of getServiceLineAttributionData against its input: the totals,
\* the count, and the two percentages as IsPercentage(value, part, whole)
\* reads them.
AttributionDataMatches(IsPercentage(_, _, _)) ==
    op = "getServiceLineAttributionData" =>
        LET placements == input.placements
            summary == output.value.summary
            lines == output.value.serviceLines
            LineCount(line) == line.placementCount
            totalRevenue == Sum(SeqMap(RevenueIn, placements))
            totalMargin == Sum(SeqMap(MarginIn, placements))
        IN  /\ summary.totalRevenue = totalRevenue
            /\ summary.totalMargin = totalMargin
            /\ summary.totalPlacements = Len(placements)
            /\ summary.totalPlacements = Sum(SeqMap(LineCount, lines))
            /\ IsPercentage(summary.averageMarginPercentage, totalMargin, totalRevenue)
            /\ \A i \in 1..Len(lines) :
                   LET InLine(p) == GroupOf(p) = lines[i].serviceLine
                       lineRevenue == Sum(SeqMap(RevenueIn, SelectSeq(placements, InLine)))
                   IN  IsPercentage(lines[i].revenuePercentage, lineRevenue, totalRevenue)

VelocityScoreOf(placement) == calculateVelocityScore(placement, placement.job)
\* The calendar month a placement with a fill timestamp was filled in.
FillMonth(placement) == MonthKey(FillStamp(placement).n)
\* Every placement of a list has a fill timestamp that is a point in time.
AllFilled(placements) ==
    \A i \in 1..Len(placements) : IsInstant(FillStamp(placements[i]))

LineTierIsTierOfReportedAverage ==
    op = "getPlacementVelocityData" /\ ~output.threw =>
        \A i \in 1..Len(output.value.byServiceLine) :
            LET entry == output.value.byServiceLine[i]
                InLine(p) == GroupOf(p) = entry.serviceLine
                line == SelectSeq(input.placements, InLine)
            IN  /\ entry.placementCount = Len(line)
                /\ RoundsTo(entry.averageVelocity,
                            Sum(SeqMap(VelocityScoreOf, line)), Len(line))
                /\ entry.tier = getScoreTier(entry.averageVelocity)

\* What a placement of a report's input costs: marketing plus sales, nothing
\* when it has no attribution.
MarketingCostIn(placement) ==
    IF IsObject(placement.attribution) /\ placement.attribution.marketingCost.tag = "number"
        THEN placement.attribution.marketingCost.n ELSE 0
SalesCostIn(placement) ==
    IF IsObject(placement.attribution) /\ placement.attribution.salesCost.tag = "number"
        THEN placement.attribution.salesCost.n ELSE 0
CostIn(placement) == MarketingCostIn(placement) + SalesCostIn(placement)
\* The ROI score of a placement of a report's input.
RoiScoreOf(placement) == calculateROIScore(placement, placement.attribution)

\* The summary of getROIDashboardData against its input, the ROI percentage
\* as IsPercentage(value, part, whole) reads it.
RoiSummaryMatches(IsPercentage(_, _, _)) ==
    op = "getROIDashboardData" =>
        LET placements == input.placements
            summary == output.value.summary
            costBreakdown == output.value.costBreakdown
            totalRevenue == Sum(SeqMap(RevenueIn, placements))
            totalCost == Sum(SeqMap(CostIn, placements))
        IN  /\ summary.totalCost = totalCost
            /\ costBreakdown.marketing = Sum(SeqMap(MarketingCostIn, placements))
            /\ costBreakdown.sales = Sum(SeqMap(SalesCostIn, placements))
            /\ costBreakdown.marketing + costBreakdown.sales = summary.totalCost
            /\ IsPercentage(summary.overallROI, totalRevenue - totalCost, totalCost)
            /\ IF Len(placements) = 0
                   THEN summary.averageROIScore = 0
                   ELSE RoundsTo(summary.averageROIScore,
                                 Sum(SeqMap(RoiScoreOf, placements)), Len(placements))
            /\ summary.tier = getScoreTier(summary.averageROIScore)

\* C16 (as stated): getROIDashboardData reports totalCost as the sum of
\* marketing and sales costs, equal to the sum of the cost breakdown,
\* overallROI as the rounded percentage of net revenue over cost, 0 when
\* totalCost is 0, and the rounded mean ROI score with its tier.
OverallRoiZeroAtZeroCost == RoiSummaryMatches(IsPercentageOrZeroAtZero)

\* C16: getROIDashboardData reports totalCost as the sum over the placements
\* of marketingCost + salesCost, equal to costBreakdown.marketing +
\* costBreakdown.sales; overallROI as round((totalRevenue - totalCost) /
\* totalCost * 100) for a positive totalCost and 0 when totalCost is 0 or
\* negative; averageROIScore as the rounded mean of the ROI scores (0 for an
\* empty list), and summary.tier as its tier.
OverallRoiOfPositiveCost == RoiSummaryMatches(IsPercentageOfPositive)

\* Two placements, 21 of revenue against 5 of marketing and 4 of sales cost:
\* an overall ROI of 133 percent, scores 80 and 0.
OverallRoiWitness ==
    /\ op = "getROIDashboardData"
    /\ Len(input.placements) = 2
    /\ output.value.summary.totalRevenue = 21
    /\ output.value.costBreakdown = [marketing |-> 5, sales |-> 4]
    /\ output.value.summary.totalCost = 9
    /\ output.value.summary.overallROI = 133
    /\ output.value.summary.averageROIScore = 40
    /\ output.value.summary.tier = "below_average"

\* The byServiceLine entries of getROIDashboardData against its input, the
\* ROI percentage as IsPercentage(value, part, whole) reads it.
RoiLinesMatch(IsPercentage(_, _, _)) ==
    op = "getROIDashboardData" =>
        LET placements == input.placements
            lines == output.value.byServiceLine
            LineRevenue(line) == line.revenue
            LineCost(line) == line.cost
        IN  /\ {lines[i].serviceLine : i \in 1..Len(lines)} =
                   {GroupOf(placements[j]) : j \in 1..Len(placements)}
            /\ \A i, k \in 1..Len(lines) :
                   lines[i].serviceLine = lines[k].serviceLine => i = k
            /\ Sum(SeqMap(LineRevenue, lines)) = output.value.summary.totalRevenue
            /\ Sum(SeqMap(LineCost, lines)) = output.value.summary.totalCost
            /\ \A i \in 1..Len(lines) :
                   LET InLine(p) == GroupOf(p) = lines[i].serviceLine
                       line == SelectSeq(placements, InLine)
                       revenue == Sum(SeqMap(RevenueIn, line))
                       cost == Sum(SeqMap(CostIn, line))
                   IN  /\ lines[i].revenue = revenue
                       /\ lines[i].cost = cost
                       /\ IsPercentage(lines[i].roi, revenue - cost, cost)
                       /\ RoundsTo(lines[i].averageScore,
                                   Sum(SeqMap(RoiScoreOf, line)), Len(line))

\* C17 (as stated): byServiceLine has exactly one entry per service line of
\* the input, with the line's revenue and cost, the ROI percentage of the
\* line, 0 when its cost is 0, and the rounded mean of its ROI scores.
LineRoiZeroAtZeroCost == RoiLinesMatch(IsPercentageOrZeroAtZero)

\* C17: byServiceLine of getROIDashboardData has exactly one entry per service
\* line of the input ("Unassigned" for placements without one); each entry's
\* revenue and cost are the sums over the line, so that they add up to the
\* summary's totals; roi = round((revenue - cost) / cost * 100) for a positive
\* cost and 0 when the line's cost is 0 or negative; averageScore is the
\* rounded mean of the line's ROI scores.
LineRoiOfPositiveCost == RoiLinesMatch(IsPercentageOfPositive)

\* Two IT placements and one Healthcare placement: IT earns 10015 on a cost
\* of 3 with scores 40 and 80, Healthcare 8 on a cost of 1.
LineRoiWitness ==
    /\ op = "getROIDashboardData"
    /\ Len(input.placements) = 3
    /\ output.value.byServiceLine =
           <<[serviceLine |-> "IT", revenue |-> 10015, cost |-> 3,
              roi |-> 333733, averageScore |-> 60],
             [serviceLine |-> "Healthcare", revenue |-> 8, cost |-> 1,
              roi |-> 700, averageScore |-> 100]>>

\* The jobs passed to getExecutiveDashboardData: none when the argument is
\* left out.
JobCount == IF IsObject(input.jobs) THEN Len(input.jobs.items) ELSE 0

\* C18: getExecutiveDashboardData returns the three reports of the same
\* placement list and an overview with the number of jobs, the number of
\* placements and fillRate = round(placements / jobs * 100), 0 when the job
\* list is empty or left out; one placement over two jobs gives 50.
ExecutiveReportReturned ==
    op = "getExecutiveDashboardData" =>
        /\ ~output.threw
        /\ output.value.serviceLineAttribution =
               getServiceLineAttributionData(input.placements)
        /\ Returned(output.value.placementVelocity) =
               getPlacementVelocityData(input.placements)
        /\ output.value.roi = getROIDashboardData(input.placements)
        /\ output.value.overview.totalJobs = JobCount
        /\ output.value.overview.totalPlacements = Len(input.placements)
        /\ IF JobCount = 0
               THEN output.value.overview.fillRate = 0
               ELSE RoundsTo(output.value.overview.fillRate,
                             Len(input.placements) * 100, JobCount)
        /\ Len(input.placements) = 1 /\ JobCount = 2 =>
               output.value.overview.fillRate = 50

\* The label of the bucket that stands for a tier.
LabelOfTier(tier) ==
    CASE tier = "excellent" -> "excellent (90-100)"
      [] tier = "good" -> "good (75-89)"
      [] tier = "average" -> "average (50-74)"
      [] tier = "below_average" -> "below_average (25-49)"
      [] tier = "poor" -> "poor (0-24)"

\* C19: calculateScoreDistribution returns all five labelled buckets for
\* every list (all zero for the empty one), counts every score in exactly one
\* bucket, so that the counts sum to the number of scores, and puts each
\* score in the bucket of its tier getScoreTier(score); [100, 95, 80, 60, 30,
\* 10] yields 2, 1, 1, 1, 1.
DistributionFollowsTiers ==
    op = "calculateScoreDistribution" =>
        LET scores == input.scores
            buckets == output.value
        IN  /\ DOMAIN buckets =
                   {"excellent (90-100)", "good (75-89)", "average (50-74)",
                    "below_average (25-49)", "poor (0-24)"}
            /\ buckets["excellent (90-100)"] + buckets["good (75-89)"]
                   + buckets["average (50-74)"] + buckets["below_average (25-49)"]
                   + buckets["poor (0-24)"] = Len(scores)
            /\ \A label \in DOMAIN buckets :
                   buckets[label] =
                       Cardinality({i \in 1..Len(scores) :
                                       LabelOfTier(getScoreTier(scores[i])) = label})
            /\ scores = <<>> => \A label \in DOMAIN buckets : buckets[label] = 0
            /\ scores = ExampleScores =>
                   /\ buckets["excellent (90-100)"] = 2
                   /\ buckets["good (75-89)"] = 1
                   /\ buckets["average (50-74)"] = 1
                   /\ buckets["below_average (25-49)"] = 1
                   /\ buckets["poor (0-24)"] = 1

\* The six scores of the example have been counted: two excellent, one in
\* each other bucket.
DistributionFollowsTiersWitness ==
    /\ op = "calculateScoreDistribution"
    /\ input.scores = <<100, 95, 80, 60, 30, 10>>
    /\ output.value["excellent (90-100)"] = 2
    /\ output.value["poor (0-24)"] = 1

----------------------------------------------------------------------------
(* HubSpotService: the CRM's deals.  A deal is [id, properties]; the id of *)
(* a deal is its position in creation order.                               *)

\* basicApi.create({ properties }): a new deal holding the properties.
createDeal(store, dealProperties) ==
    Append(store, [id |-> Len(store) + 1, properties |-> dealProperties])

\* The properties of a deal after an update: those sent replace or are added
\* to those it had.
patchProperties(old, sent) ==
    [name \in DOMAIN old \cup DOMAIN sent |->
        IF name \in DOMAIN sent THEN sent[name] ELSE old[name]]

\* basicApi.update(dealId, { properties })
updateDeal(store, dealId, dealProperties) ==
    [store EXCEPT ![dealId].properties = patchProperties(@, dealProperties)]

\* searchApi.doSearch with one EQ filter: the deals that have the property
\* with that value, oldest first.
searchDeals(store, propertyName, value) ==
    LET Matches(deal) ==
            /\ propertyName \in DOMAIN deal.properties
            /\ deal.properties[propertyName] = value
    IN  SelectSeq(store, Matches)

\* One call of the CRM, as the log keeps it.
SearchCall(propertyName, value) ==
    [call |-> "searchDeals", propertyName |-> propertyName, value |-> value]
UpdateCall(dealId, dealProperties) ==
    [call |-> "updateDeal", dealId |-> dealId, properties |-> dealProperties]
CreateCall(dealProperties) ==
    [call |-> "createDeal", properties |-> dealProperties]

----------------------------------------------------------------------------
(* SyncService                                                             *)

\* A TrackerRMS job as the sync reads it; name, targetDate, serviceLine and
\* category are not set on the jobs of the model.
SyncJob(id, title, status, estimatedRevenue, placements) ==
    [tag |-> "object", id |-> id, title |-> title, name |-> Undefined,
     estimatedRevenue |-> estimatedRevenue, status |-> status,
     targetDate |-> Undefined, serviceLine |-> Undefined, category |-> Undefined,
     placements |-> placements]

\* A TrackerRMS placement as the sync reads it; title, billRate, hours,
\* createdAt and serviceLine are not set on the placements of the model.
SyncPlacement(id, jobId, revenue, margin, velocityScore, roiScore) ==
    [tag |-> "object", id |-> id, jobId |-> jobId, title |-> Undefined,
     candidateName |-> Undefined, revenue |-> revenue, billRate |-> Undefined,
     hours |-> Undefined, margin |-> margin, startDate |-> DateStr(0),
     createdAt |-> Undefined, serviceLine |-> Undefined,
     velocityScore |-> velocityScore, roiScore |-> roiScore]

\* status?.toLowerCase(), on the statuses of the model.
ToLowerCase(status) ==
    IF status.tag # "string" THEN Undefined
    ELSE CASE status.s = "Filled" -> Str("filled")
           [] OTHER -> status

\* mapJobStatusToDealStage(status)
mapJobStatusToDealStage(status) ==
    LET key == ToLowerCase(status)
        stage == CASE key = Str("open") -> Str("appointmentscheduled")
                   [] key = Str("active") -> Str("qualifiedtobuy")
                   [] key = Str("interviewing") -> Str("presentationscheduled")
                   [] key = Str("offer") -> Str("decisionmakerboughtin")
                   [] key = Str("filled") -> Str("closedwon")
                   [] key = Str("closed") -> Str("closedlost")
                   [] key = Str("cancelled") -> Str("closedlost")
                   [] OTHER -> Undefined
    IN  Or(stage, Str("appointmentscheduled"))

\* mapJobToDealProperties(job)
mapJobToDealProperties(job) ==
    [dealname |-> Or(job.title, job.name),
     amount |-> Or(job.estimatedRevenue, Num(0)),
     dealstage |-> mapJobStatusToDealStage(job.status),
     closedate |-> Or(job.targetDate, Null),
     trackerrms_job_id |-> job.id,
     trackerrms_service_line |-> Or(Or(job.serviceLine, job.category), Str(""))]

\* `Placement: ${placement.candidateName}`
placementDealName(candidateName) ==
    IF candidateName.tag = "undefined" THEN Str("Placement: undefined")
    ELSE Str("Placement: candidate")

\* placement.billRate * placement.hours; NaN (an operand is not set) is
\* falsy and is followed by || 0, as is the number 0 that stands for it here.
billedAmount(placement) ==
    IF placement.billRate.tag = "number" /\ placement.hours.tag = "number"
        THEN Num(placement.billRate.n * placement.hours.n)
        ELSE Num(0)

\* mapPlacementToDealProperties(placement)
mapPlacementToDealProperties(placement) ==
    [dealname |-> Or(placement.title, placementDealName(placement.candidateName)),
     amount |-> Or(placement.revenue, Or(billedAmount(placement), Num(0))),
     dealstage |-> Str("closedwon"),
     closedate |-> Or(placement.startDate, placement.createdAt),
     trackerrms_placement_id |-> placement.id,
     trackerrms_job_id |-> Or(placement.jobId, Str("")),
     trackerrms_service_line |-> Or(placement.serviceLine, Str("")),
     trackerrms_revenue |-> Or(placement.revenue, Num(0)),
     trackerrms_margin |-> Or(placement.margin, Num(0)),
     trackerrms_placement_date |-> Or(placement.startDate, Null)]

\* syncSingleJob(job) run with no other request in between and every CRM call
\* succeeding: the deals after it, what it returns, and the calls it made.
syncSingleJob(store, job) ==
    LET dealProperties == mapJobToDealProperties(job)
        existingDeals == searchDeals(store, "trackerrms_job_id", job.id)
        search == SearchCall("trackerrms_job_id", job.id)
    IN  IF Len(existingDeals) > 0
            THEN [deals |-> updateDeal(store, existingDeals[1].id, dealProperties),
                  result |-> [jobId |-> job.id, dealId |-> existingDeals[1].id,
                              action |-> "updated"],
                  calls |-> <<search, UpdateCall(existingDeals[1].id, dealProperties)>>]
            ELSE [deals |-> createDeal(store, dealProperties),
                  result |-> [jobId |-> job.id, dealId |-> Len(store) + 1,
                              action |-> "created"],
                  calls |-> <<search, CreateCall(dealProperties)>>]

\* syncSinglePlacement(placement), likewise.
syncSinglePlacement(store, placement) ==
    LET dealProperties == mapPlacementToDealProperties(placement)
        existingDeals == searchDeals(store, "trackerrms_placement_id", placement.id)
        jobDeals == searchDeals(store, "trackerrms_job_id", placement.jobId)
        search == SearchCall("trackerrms_placement_id", placement.id)
        jobSearch == SearchCall("trackerrms_job_id", placement.jobId)
    IN  IF Len(existingDeals) > 0
            THEN [deals |-> updateDeal(store, existingDeals[1].id, dealProperties),
                  result |-> [placementId |-> placement.id,
                              dealId |-> existingDeals[1].id, action |-> "updated"],
                  calls |-> <<search, UpdateCall(existingDeals[1].id, dealProperties)>>]
        ELSE IF Truthy(placement.jobId) /\ Len(jobDeals) > 0
            THEN [deals |-> updateDeal(store, jobDeals[1].id, dealProperties),
                  result |-> [placementId |-> placement.id, jobId |-> placement.jobId,
                              dealId |-> jobDeals[1].id, action |-> "updated"],
                  calls |-> <<search, jobSearch,
                              UpdateCall(jobDeals[1].id, dealProperties)>>]
        ELSE [deals |-> createDeal(store, dealProperties),
              result |-> [placementId |-> placement.id, dealId |-> Len(store) + 1,
                          action |-> "created"],
              calls |-> IF Truthy(placement.jobId)
                            THEN <<search, jobSearch, CreateCall(dealProperties)>>
                            ELSE <<search, CreateCall(dealProperties)>>]

\* const results = { created: 0, updated: 0, errors: 0, items: [] }
EmptyResults == [created |-> 0, updated |-> 0, errors |-> 0, items |-> <<>>]

\* The try branch of the loop body: the result is pushed and counted.
recordSynced(results, syncResult) ==
    [created |-> results.created + (IF syncResult.action = "created" THEN 1 ELSE 0),
     updated |-> results.updated + (IF syncResult.action = "updated" THEN 1 ELSE 0),
     errors |-> results.errors,
     items |-> Append(results.items, syncResult)]

\* The catch branch with the error entry pushed but not counted.
recordJobFailedUncounted(results, job) ==
    [results EXCEPT !.items = Append(@, [jobId |-> job.id, action |-> "error",
                                          error |-> "CRM call failed"])]
\* The catch branch of the loop of syncJobs.
recordJobFailed(results, job) ==
    [results EXCEPT !.errors = @ + 1,
                    !.items = Append(@, [jobId |-> job.id, action |-> "error",
                                          error |-> "CRM call failed"])]
\* The catch branch of the loop of syncPlacements.
recordPlacementFailed(results, placement) ==
    [results EXCEPT !.errors = @ + 1,
                    !.items = Append(@, [placementId |-> placement.id,
                                          action |-> "error",
                                          error |-> "CRM call failed"])]

----------------------------------------------------------------------------
(* The orchestrator at work: syncJobs and syncPlacements, one record of    *)
(* the fetched list per step (the loop suspends at the awaits of each      *)
(* record's sync).                                                         *)

SyncJobSamples ==
    {SyncJob(Str("J1"), Str("Nurse"), Str("open"), Num(100), Undefined),
     SyncJob(Str("J1"), Str("Nurse"), Str("Filled"), Undefined, Undefined),
     SyncJob(Str("J2"), Undefined, Undefined, Num(50), Undefined)}

SyncPlacementSamples ==
    {SyncPlacement(Str("P1"), Str("J1"), Num(10), Num(2), Num(80), Num(60)),
     SyncPlacement(Str("P2"), Str("J1"), Num(20), Num(5), Undefined, Undefined),
     SyncPlacement(Str("P3"), Undefined, Undefined, Undefined, Num(0), Num(0)),
     SyncPlacement(Str("P4"), Str("J2"), Num(30), Num(-1), Num(100), Num(40))}

\* The lists getJobs and getPlacements answer with.
FetchedLists(samples) == UNION {[1..n -> samples] : n \in 0..MaxRecords}

\* The deals the CRM holds before a sync: none, the deal of job J1, the deal
\* of placement P1, or the deal of job J2 followed by an unrelated one.
InitialDeals ==
    {<<>>,
     createDeal(<<>>, mapJobToDealProperties(
         SyncJob(Str("J1"), Str("Nurse"), Str("open"), Num(100), Undefined))),
     createDeal(<<>>, mapPlacementToDealProperties(
         SyncPlacement(Str("P1"), Str("J1"), Num(9), Num(1), Undefined, Undefined))),
     createDeal(createDeal(<<>>, mapJobToDealProperties(
                    SyncJob(Str("J2"), Undefined, Undefined, Num(50), Undefined))),
                [dealname |-> Str("Other")])}

SyncInit ==
    /\ op = "idle"
    /\ input = <<>>
    /\ output = <<>>
    /\ placementsAfter = <<>>
    /\ deals \in InitialDeals
    /\ crmCalls = <<>>
    /\ tasks = <<>>
    /\ tokenStore = <<>>
    /\ session = <<>>
    /\ clock = 0
    /\ ledger = <<>>

\* What a sync step leaves alone.
UnchangedBySync == UNCHANGED <<placementsAfter, tasks, tokenStore, session, clock>>

\* The record the loop is at.
NextRecord == input.records[Len(output.items) + 1]

\* syncJobs: getJobs answers.
SyncJobsFetch ==
    /\ op = "idle"
    /\ \E jobs \in FetchedLists(SyncJobSamples) :
          input' = [records |-> jobs]
    /\ op' = "syncJobs"
    /\ output' = EmptyResults
    /\ crmCalls' = Append(crmCalls, [call |-> "getJobs"])
    /\ UNCHANGED <<deals, ledger>>
    /\ UnchangedBySync

\* syncJobs: getJobs raises, and so does syncJobs.
SyncJobsFetchFails ==
    /\ op = "idle"
    /\ op' = "syncJobsReturned"
    /\ input' = [records |-> <<>>]
    /\ output' = Raised("getJobs failed")
    /\ UNCHANGED <<deals, crmCalls, ledger>>
    /\ UnchangedBySync

\* syncJobs: one turn of the loop, the record's sync succeeding.
SyncJobsStep ==
    /\ op = "syncJobs"
    /\ Len(output.items) < Len(input.records)
    /\ LET run == syncSingleJob(deals, NextRecord)
       IN  /\ deals' = run.deals
           /\ crmCalls' = crmCalls \o run.calls
           /\ output' = recordSynced(output, run.result)
    /\ ledger' = Append(ledger, "synced")
    /\ UNCHANGED <<op, input>>
    /\ UnchangedBySync

\* syncJobs: one turn of the loop, a CRM call of the record's sync raising.
SyncJobsStepFails ==
    /\ op = "syncJobs"
    /\ Len(output.items) < Len(input.records)
    /\ LET run == syncSingleJob(deals, NextRecord)
       IN  \E failing \in 1..Len(run.calls) :
               crmCalls' = crmCalls \o SubSeq(run.calls, 1, failing - 1)
    /\ output' = recordJobFailed(output, NextRecord)
    /\ ledger' = Append(ledger, "raised")
    /\ UNCHANGED <<op, input, deals>>
    /\ UnchangedBySync

\* syncJobs: the loop is over and the results are returned.
SyncJobsReturn ==
    /\ op = "syncJobs"
    /\ Len(output.items) = Len(input.records)
    /\ op' = "syncJobsReturned"
    /\ output' = Returned(output)
    /\ UNCHANGED <<input, deals, crmCalls, ledger>>
    /\ UnchangedBySync

\* syncPlacements: getPlacements answers.
SyncPlacementsFetch ==
    /\ op = "idle"
    /\ \E placements \in FetchedLists(SyncPlacementSamples) :
          input' = [records |-> placements]
    /\ op' = "syncPlacements"
    /\ output' = EmptyResults
    /\ crmCalls' = Append(crmCalls, [call |-> "getPlacements"])
    /\ UNCHANGED <<deals, ledger>>
    /\ UnchangedBySync

\* syncPlacements: getPlacements raises, and so does syncPlacements.
SyncPlacementsFetchFails ==
    /\ op = "idle"
    /\ op' = "syncPlacementsReturned"
    /\ input' = [records |-> <<>>]
    /\ output' = Raised("getPlacements failed")
    /\ UNCHANGED <<deals, crmCalls, ledger>>
    /\ UnchangedBySync

\* syncPlacements: one turn of the loop, the record's sync succeeding.
SyncPlacementsStep ==
    /\ op = "syncPlacements"
    /\ Len(output.items) < Len(input.records)
    /\ LET run == syncSinglePlacement(deals, NextRecord)
       IN  /\ deals' = run.deals
           /\ crmCalls' = crmCalls \o run.calls
           /\ output' = recordSynced(output, run.result)
    /\ ledger' = Append(ledger, "synced")
    /\ UNCHANGED <<op, input>>
    /\ UnchangedBySync

\* syncPlacements: one turn of the loop, a CRM call of the record's sync
\* raising.
SyncPlacementsStepFails ==
    /\ op = "syncPlacements"
    /\ Len(output.items) < Len(input.records)
    /\ LET run == syncSinglePlacement(deals, NextRecord)
       IN  \E failing \in 1..Len(run.calls) :
               crmCalls' = crmCalls \o SubSeq(run.calls, 1, failing - 1)
    /\ output' = recordPlacementFailed(output, NextRecord)
    /\ ledger' = Append(ledger, "raised")
    /\ UNCHANGED <<op, input, deals>>
    /\ UnchangedBySync

\* syncPlacements: the loop is over and the results are returned.
SyncPlacementsReturn ==
    /\ op = "syncPlacements"
    /\ Len(output.items) = Len(input.records)
    /\ op' = "syncPlacementsReturned"
    /\ output' = Returned(output)
    /\ UNCHANGED <<input, deals, crmCalls, ledger>>
    /\ UnchangedBySync

SyncNext ==
    \/ SyncJobsFetch
    \/ SyncJobsFetchFails
    \/ SyncJobsStep
    \/ SyncJobsStepFails
    \/ SyncJobsReturn
    \/ SyncPlacementsFetch
    \/ SyncPlacementsFetchFails
    \/ SyncPlacementsStep
    \/ SyncPlacementsStepFails
    \/ SyncPlacementsReturn

SyncSpec == SyncInit /\ [][SyncNext]_vars

\* A CRM call that writes a deal.
IsWrite(crmCall) == crmCall.call \in {"createDeal", "updateDeal"}

\* C21: every deal write of syncSinglePlacement, creating or updating, carries
\* trackerrms_velocity_score and trackerrms_roi_score, holding the placement's
\* velocity and ROI scores.
PlacementWritesCarryScores ==
    op \in {"syncPlacements", "syncPlacementsReturned"} =>
        \A k \in 1..Len(crmCalls) :
            IsWrite(crmCalls[k]) =>
                /\ "trackerrms_velocity_score" \in DOMAIN crmCalls[k].properties
                /\ "trackerrms_roi_score" \in DOMAIN crmCalls[k].properties
                /\ \E i \in 1..Len(input.records) :
                       /\ crmCalls[k].properties.trackerrms_placement_id
                              = input.records[i].id
                       /\ crmCalls[k].properties.trackerrms_velocity_score
                              = input.records[i].velocityScore
                       /\ crmCalls[k].properties.trackerrms_roi_score
                              = input.records[i].roiScore

\* A deal holds a value under a property name.
DealHas(deal, propertyName, value) ==
    /\ propertyName \in DOMAIN deal.properties
    /\ deal.properties[propertyName] = value

\* A placement is represented by a deal: its id, revenue and margin.
Represents(deal, placement) ==
    /\ DealHas(deal, "trackerrms_placement_id", placement.id)
    /\ DealHas(deal, "trackerrms_revenue", Or(placement.revenue, Num(0)))
    /\ DealHas(deal, "trackerrms_margin", Or(placement.margin, Num(0)))

\* syncPlacements returned after syncing every record of a list of placements
\* of distinct ids, no CRM call raising.
EveryPlacementSynced ==
    /\ op = "syncPlacementsReturned"
    /\ ~output.threw
    /\ \A k \in 1..Len(ledger) : ledger[k] = "synced"
    /\ \A i, j \in 1..Len(input.records) :
           input.records[i].id = input.records[j].id => i = j

\* C25: after syncSinglePlacement ran once for each placement of a set, one
\* after the other and every CRM call succeeding, each placement has a deal
\* carrying its id, revenue and margin, also when placements share a jobId.
EveryPlacementRepresented ==
    EveryPlacementSynced =>
        \A i \in 1..Len(input.records) :
            \E k \in 1..Len(deals) : Represents(deals[k], input.records[i])

\* The id an entry of results.items carries for its record.
ItemId(item) == IF op = "syncJobsReturned" THEN item.jobId ELSE item.placementId

\* The number of records whose sync raised.
RaisedCount == Cardinality({k \in 1..Len(ledger) : ledger[k] = "raised"})

\* syncJobs or syncPlacements returned its results.
SyncReturned ==
    /\ op \in {"syncJobsReturned", "syncPlacementsReturned"}
    /\ ~output.threw

\* C30: syncJobs and syncPlacements return, for a fetched list of n records,
\* n items in the order of the list, the item of a record being an error
\* entry exactly when its sync raised, with created + updated + errors = n
\* and errors the number of records whose sync raised: a failure stops
\* nothing after it.
SyncIsolatesFailures ==
    SyncReturned =>
        LET results == output.value
            n == Len(input.records)
        IN  /\ Len(results.items) = n
            /\ Len(ledger) = n
            /\ \A i \in 1..n :
                   /\ ItemId(results.items[i]) = input.records[i].id
                   /\ (results.items[i].action = "error") <=> (ledger[i] = "raised")
            /\ results.created + results.updated + results.errors = n
            /\ results.errors = RaisedCount

\* syncJobs returned after the first record's sync raised and the second
\* was synced.
SyncIsolatesFailuresWitness ==
    /\ op = "syncJobsReturned"
    /\ ~output.threw
    /\ Len(ledger) >= 2
    /\ ledger[1] = "raised"
    /\ ledger[2] = "synced"
    /\ output.value.items[2].action \in {"created", "updated"}

----------------------------------------------------------------------------
(* oauth.js: the token store.  tokenStore is a Map from portal id to token *)
(* data; the model keeps its entries in insertion order.  Time is counted  *)
(* in minutes.                                                             *)

\* A token response, or the argument of storeTokens.
Tokens(accessToken, refreshToken, expiresIn, hubId) ==
    [accessToken |-> accessToken, refreshToken |-> refreshToken,
     expiresIn |-> expiresIn, hubId |-> hubId]

\* The position of the entry of a portal in the Map, 0 when it has none.
entryIndex(store, portalId) ==
    IF \E k \in 1..Len(store) : store[k].portalId = portalId
        THEN CHOOSE k \in 1..Len(store) : store[k].portalId = portalId
        ELSE 0

\* Map.set that adds an entry without looking for the key.
mapSetAppending(store, portalId, tokenData) == Append(store, tokenData)
\* tokenStore.set(portalId, tokenData): the entry of the key is replaced where
\* it stands, a new key is added last.
mapSet(store, portalId, tokenData) ==
    IF entryIndex(store, portalId) = 0
        THEN Append(store, tokenData)
        ELSE [store EXCEPT ![entryIndex(store, portalId)] = tokenData]

\* storeTokens(portalId, tokens) at the instant now
storeTokens(store, portalId, tokens, now) ==
    mapSet(store, portalId,
           [accessToken |-> tokens.accessToken,
            refreshToken |-> tokens.refreshToken,
            expiresAt |-> now + tokens.expiresIn,
            portalId |-> portalId])

\* A lookup that answers with the oldest entry, whatever the portal.
getTokensOfAny(store, portalId) == IF store = <<>> THEN Null ELSE store[1]
\* getTokens(portalId): tokenStore.get(portalId) || null
getTokens(store, portalId) ==
    IF entryIndex(store, portalId) = 0 THEN Null
    ELSE store[entryIndex(store, portalId)]

\* removeTokens(portalId): tokenStore.delete(portalId)
removeTokens(store, portalId) ==
    LET Other(entry) == entry.portalId # portalId
    IN  SelectSeq(store, Other)

\* getConnectedPortals(): Array.from(tokenStore.keys())
getConnectedPortals(store) == [k \in 1..Len(store) |-> store[k].portalId]

\* The minutes before expiry from which a token counts as expired (300000 ms).
ExpiryBuffer == 5

\* A token counted as expired only once its expiry is reached.
isTokenExpiredAtExpiry(tokens, now) ==
    IF tokens = Null THEN TRUE
    ELSE IF tokens.expiresAt = 0 THEN TRUE
    ELSE now >= tokens.expiresAt
\* isTokenExpired(tokens) at the instant now
isTokenExpired(tokens, now) ==
    IF tokens = Null THEN TRUE
    ELSE IF tokens.expiresAt = 0 THEN TRUE
    ELSE now >= tokens.expiresAt - ExpiryBuffer

----------------------------------------------------------------------------
(* The token store under calls of storeTokens and removeTokens.            *)

Portals == {"portal-1", "portal-2", "default"}
AccessTokens == {"t1", "t2"}
\* A token handed to storeTokens lives an hour.
StoredLifetime == 60
StoreArguments ==
    {Tokens(accessToken, refreshToken, StoredLifetime, "")
         : accessToken \in AccessTokens, refreshToken \in {"r1", "r2"}}

\* ledger.kept[p]: what the last call for portal p left: the tokens of a
\* storeTokens, or Null after a removeTokens or when there was no call.
StoreInit ==
    /\ op = "idle"
    /\ input = <<>>
    /\ output = <<>>
    /\ placementsAfter = <<>>
    /\ deals = <<>>
    /\ crmCalls = <<>>
    /\ tasks = <<>>
    /\ tokenStore = <<>>
    /\ session = <<>>
    /\ clock = 0
    /\ ledger = [calls |-> 0, kept |-> [p \in Portals |-> Null]]

UnchangedByStore ==
    UNCHANGED <<placementsAfter, deals, crmCalls, tasks, session, clock>>

StoreTokens ==
    /\ ledger.calls < MaxStoreCalls
    /\ \E portalId \in Portals, tokens \in StoreArguments :
          /\ tokenStore' = storeTokens(tokenStore, portalId, tokens, clock)
          /\ input' = [portalId |-> portalId, tokens |-> tokens]
          /\ ledger' = [calls |-> ledger.calls + 1,
                        kept |-> [ledger.kept EXCEPT ![portalId] = tokens]]
    /\ op' = "storeTokens"
    /\ output' = Returned(Undefined)
    /\ UnchangedByStore

RemoveTokens ==
    /\ ledger.calls < MaxStoreCalls
    /\ \E portalId \in Portals :
          /\ tokenStore' = removeTokens(tokenStore, portalId)
          /\ input' = [portalId |-> portalId]
          /\ ledger' = [calls |-> ledger.calls + 1,
                        kept |-> [ledger.kept EXCEPT ![portalId] = Null]]
    /\ op' = "removeTokens"
    /\ output' = Returned(Undefined)
    /\ UnchangedByStore

StoreNext ==
    \/ StoreTokens
    \/ RemoveTokens

StoreSpec == StoreInit /\ [][StoreNext]_vars

\* The elements of an array.
Elements(array) == {array[k] : k \in 1..Len(array)}

\* C22: after any sequence of storeTokens and removeTokens calls,
\* getConnectedPortals returns exactly the portals whose last call was a
\* storeTokens, each once; getTokens gives the access and refresh token of
\* the most recent storeTokens for such a portal and null for every other;
\* a call for one portal changes nothing of what is stored for another.
StoreKeepsLastCall ==
    /\ Elements(getConnectedPortals(tokenStore)) =
           {p \in Portals : ledger.kept[p] # Null}
    /\ Len(getConnectedPortals(tokenStore)) =
           Cardinality({p \in Portals : ledger.kept[p] # Null})
    /\ \A p \in Portals :
           IF ledger.kept[p] = Null
               THEN getTokens(tokenStore, p) = Null
               ELSE /\ getTokens(tokenStore, p) # Null
                    /\ getTokens(tokenStore, p).accessToken = ledger.kept[p].accessToken
                    /\ getTokens(tokenStore, p).refreshToken = ledger.kept[p].refreshToken

\* portal-1 was stored twice and portal-2 stored and removed: portal-1 holds
\* its second tokens and is the only portal connected.
StoreKeepsLastCallWitness ==
    /\ ledger.calls = 4
    /\ op = "removeTokens"
    /\ input.portalId = "portal-2"
    /\ getConnectedPortals(tokenStore) = <<"portal-1">>
    /\ getTokens(tokenStore, "portal-1") # Null
    /\ getTokens(tokenStore, "portal-1").accessToken = "t2"
    /\ getTokens(tokenStore, "portal-2") = Null

----------------------------------------------------------------------------
(* dashboard-routes.js behind validateTrackerRMSKey: one GET request, from *)
(* its arrival to its response.  The handler suspends once, at the fetch   *)
(* from TrackerRMS.                                                        *)

DashboardRoutes == {"/attribution", "/velocity", "/roi", "/executive"}

\* req.headers['x-trackerrms-api-key']: absent, empty or a key.
ApiKeyHeaders == {Undefined, Str(""), Str("key")}

\* The error of validateTrackerRMSKey.
ApiKeyRequired == Str("TrackerRMS API key required in X-TrackerRMS-API-Key header")

\* res.status(status).json(body)
Response(status, body) == [status |-> status, body |-> body]

\* What getPlacements answers with: a placement as TrackerRMS holds it, with
\* the id of its job or none; the job is attached by the route.
FetchedPlacement(jobId, revenue, margin, serviceLine, attribution) ==
    [jobId |-> jobId,
     record |-> Placement(DateStr(5 * TicksPerDay), DateStr(0), revenue, margin,
                          serviceLine, Undefined, attribution, Undefined)]
FetchedPlacementSamples ==
    {FetchedPlacement(Str("J1"), Num(10000), Num(2000), Str("IT"), Undefined),
     FetchedPlacement(Str("J2"), Num(15), Num(4), Str("Healthcare"),
                      Attribution(Num(2), Num(1))),
     FetchedPlacement(Undefined, Num(8), Num(-2), Undefined, Undefined)}
\* What getJobs and getJob answer with.
FetchedJob(id, createdAt) == [id |-> id, record |-> Job(createdAt, Undefined)]
FetchedJobSamples == {FetchedJob(Str("J1"), DateStr(0)),
                      FetchedJob(Str("J1"), DateStr(TicksPerDay))}

\* The most records a fetch of a dashboard route answers with.
MaxFetched == 2
FetchedOf(samples) == UNION {[1..n -> samples] : n \in 0..MaxFetched}

\* placement.job = job, for the placements the route found a job for.
enrich(fetched, jobOf) ==
    [i \in 1..Len(fetched) |->
        IF jobOf[i] = Undefined THEN fetched[i].record
        ELSE [fetched[i].record EXCEPT !.job = jobOf[i]]]

\* /executive: jobMap.get(placement.jobId); of two jobs of one id the Map
\* keeps the later.
jobMapGet(jobs, jobId) ==
    LET Hits == {k \in 1..Len(jobs) : jobs[k].id = jobId}
    IN  IF ~Truthy(jobId) \/ Hits = {} THEN Undefined
        ELSE jobs[CHOOSE k \in Hits : \A h \in Hits : h <= k].record

\* The answer of a route to the data its builder returned or the error it
\* raised.
respond(result) ==
    IF result.threw
        THEN Response(500, [success |-> FALSE, error |-> result.value])
        ELSE Response(200, [success |-> TRUE, data |-> result.value])

DashboardInit ==
    /\ op = "idle"
    /\ input = <<>>
    /\ output = <<>>
    /\ placementsAfter = <<>>
    /\ IntegrationIdle

UnchangedByDashboard ==
    UNCHANGED <<placementsAfter, deals, tasks, tokenStore, session, clock, ledger>>

\* validateTrackerRMSKey answering 400.
DashboardRejects ==
    /\ op = "idle"
    /\ \E route \in DashboardRoutes, apiKey \in ApiKeyHeaders :
          /\ ~Truthy(apiKey)
          /\ input' = [route |-> route, apiKey |-> apiKey]
    /\ op' = "responded"
    /\ output' = Response(400, [error |-> ApiKeyRequired])
    /\ UNCHANGED crmCalls
    /\ UnchangedByDashboard

\* validateTrackerRMSKey calling next(), and the handler up to its await.
DashboardFetches ==
    /\ op = "idle"
    /\ \E route \in DashboardRoutes, apiKey \in ApiKeyHeaders :
          /\ Truthy(apiKey)
          /\ input' = [route |-> route, apiKey |-> apiKey]
          /\ crmCalls' = IF route = "/executive"
                             THEN <<[call |-> "getPlacements"], [call |-> "getJobs"]>>
                             ELSE <<[call |-> "getPlacements"]>>
    /\ op' = "fetching"
    /\ output' = <<>>
    /\ UnchangedByDashboard

\* The fetch raises: the catch answers 500.
DashboardFetchFails ==
    /\ op = "fetching"
    /\ op' = "responded"
    /\ output' = respond(Raised("fetch failed"))
    /\ UNCHANGED <<input, crmCalls>>
    /\ UnchangedByDashboard

\* GET /attribution and GET /roi, from the fetched placements on.
DashboardAnswers ==
    /\ op = "fetching"
    /\ input.route \in {"/attribution", "/roi"}
    /\ \E fetched \in FetchedOf(FetchedPlacementSamples) :
          LET placements == enrich(fetched, [i \in 1..Len(fetched) |-> Undefined])
          IN  output' = IF input.route = "/attribution"
                  THEN respond(Returned(getServiceLineAttributionData(placements)))
                  ELSE respond(Returned(getROIDashboardData(placements)))
    /\ op' = "responded"
    /\ UNCHANGED <<input, crmCalls>>
    /\ UnchangedByDashboard

\* GET /velocity, from the fetched placements on: getJob is called for each
\* placement that has a jobId and answers with a job or raises.
VelocityAnswers ==
    /\ op = "fetching"
    /\ input.route = "/velocity"
    /\ \E fetched \in FetchedOf(FetchedPlacementSamples) :
       \E jobOf \in [1..Len(fetched) ->
                        {Undefined} \cup {job.record : job \in FetchedJobSamples}] :
          /\ \A i \in 1..Len(fetched) :
                 ~Truthy(fetched[i].jobId) => jobOf[i] = Undefined
          /\ output' = respond(getPlacementVelocityData(enrich(fetched, jobOf)))
          /\ crmCalls' = crmCalls \o
                 [k \in 1..Cardinality({i \in 1..Len(fetched) : Truthy(fetched[i].jobId)})
                     |-> [call |-> "getJob"]]
    /\ op' = "responded"
    /\ UNCHANGED input
    /\ UnchangedByDashboard

\* GET /executive, from the fetched placements and jobs on.
ExecutiveAnswers ==
    /\ op = "fetching"
    /\ input.route = "/executive"
    /\ \E fetched \in FetchedOf(FetchedPlacementSamples),
          jobs \in FetchedOf(FetchedJobSamples) :
          LET jobOf == [i \in 1..Len(fetched) |-> jobMapGet(jobs, fetched[i].jobId)]
              jobsArg == [tag |-> "object",
                          items |-> [k \in 1..Len(jobs) |-> jobs[k].record]]
          IN  output' = respond(getExecutiveDashboardData(
                                    enrich(fetched, jobOf), jobsArg, MaxTick))
    /\ op' = "responded"
    /\ UNCHANGED <<input, crmCalls>>
    /\ UnchangedByDashboard

DashboardNext ==
    \/ DashboardRejects
    \/ DashboardFetches
    \/ DashboardFetchFails
    \/ DashboardAnswers
    \/ VelocityAnswers
    \/ ExecutiveAnswers

DashboardSpec == DashboardInit /\ [][DashboardNext]_vars

\* C23: a GET to a dashboard route without the X-TrackerRMS-API-Key header is
\* answered 400 with the error 'TrackerRMS API key required', and nothing is
\* fetched from the staffing system for it.
MissingKeyAnswer ==
    (op = "responded" /\ input.apiKey = Undefined) =>
        /\ output.status = 400
        /\ output.body.error = Str("TrackerRMS API key required")
        /\ crmCalls = <<>>

----------------------------------------------------------------------------
(* webhook-routes.js: the TrackerRMS webhooks.  Several requests are in    *)
(* flight at once; a handler runs from one await to the next in one step,  *)
(* and each step of a CRM call is the CRM serving the call followed by the *)
(* handler up to its next call or its response.                            *)

\* The most webhook requests received in one behaviour.
MaxRequests == 2
\* The most OAuth requests and getValidAccessToken calls in one behaviour.
MaxAuthCalls == 3
\* The lifetime of a short-lived token: less than the expiry buffer.
ShortLifetime == 4

\* req.headers['x-portal-id']: absent, the connected portal, another one.
PortalHeaders == {Undefined, Str("portal-1"), Str("portal-2")}

\* The events of the model: one for each branch of the switch, and one that
\* no case takes.
JobEvents == {"job.created", "job.filled", "job.deleted"}
PlacementEvents == {"placement.created", "placement.revenue_updated",
                    "placement.deleted"}

\* req.headers['x-trackerrms-api-key'] of a webhook: absent or a key.
WebhookKeyHeaders == {Undefined, Str("key")}

\* A JavaScript array.
Array(items) == [tag |-> "object", items |-> items]

\* The data of the job webhooks: a job without placements, and one with two
\* placements of that job.
WebhookPlacements ==
    <<SyncPlacement(Str("P1"), Str("J1"), Num(10), Num(2), Undefined, Undefined),
      SyncPlacement(Str("P2"), Str("J1"), Num(20), Num(5), Undefined, Undefined)>>
WebhookJobs ==
    {SyncJob(Str("J1"), Str("Nurse"), Str("open"), Num(100), Undefined),
     SyncJob(Str("J1"), Str("Nurse"), Str("Filled"), Num(100), Array(WebhookPlacements))}
\* The data of the placement webhooks.
WebhookPlacementData ==
    {WebhookPlacements[1],
     SyncPlacement(Str("P3"), Undefined, Undefined, Undefined, Undefined, Undefined)}

\* What getPlacementRevenue answers with.
RevenueSamples ==
    {[totalRevenue |-> Num(40), margin |-> Num(4)],
     [totalRevenue |-> Undefined, margin |-> Undefined]}
\* The properties syncRevenue writes.
revenueProperties(revenueData) ==
    [trackerrms_revenue |-> Or(revenueData.totalRevenue, Num(0)),
     trackerrms_margin |-> Or(revenueData.margin, Num(0)),
     amount |-> Or(revenueData.totalRevenue, Num(0))]

WebhookRequest(route, portalId, apiKey, event, data) ==
    [route |-> route, portalId |-> portalId, apiKey |-> apiKey,
     event |-> event, data |-> data]
JobRequests ==
    {WebhookRequest("/trackerrms/jobs", portalId, apiKey, event, data) :
        portalId \in PortalHeaders, apiKey \in WebhookKeyHeaders,
        event \in JobEvents, data \in WebhookJobs}
PlacementRequests ==
    {WebhookRequest("/trackerrms/placements", portalId, apiKey, event, data) :
        portalId \in PortalHeaders, apiKey \in WebhookKeyHeaders,
        event \in PlacementEvents, data \in WebhookPlacementData}

\* A request in flight: where its handler waits, the placements it has yet
\* to sync, the deal its pending write updates (0: the write creates), and
\* the CRM and TrackerRMS calls served for it so far.
WebhookTask(request, pc, rest) ==
    [request |-> request, pc |-> pc, rest |-> rest, target |-> 0, calls |-> <<>>]

\* The response of a request, with the calls that were served for it.
WebhookResponse(request, status, body, calls) ==
    [request |-> request, status |-> status, body |-> body, calls |-> calls]

MissingHeaders == [error |-> Str("Missing portal ID or TrackerRMS API key")]
NotAuthenticated == [error |-> Str("Portal not authenticated")]
ProcessingFailed == [error |-> Str("Webhook processing failed")]
Success == [success |-> TRUE]

\* The deals the CRM holds when the webhooks start: none, or the deal of
\* job J1.
WebhookDeals ==
    {<<>>,
     createDeal(<<>>, mapJobToDealProperties(
         SyncJob(Str("J1"), Str("Nurse"), Str("open"), Num(100), Undefined)))}

\* The lists getPlacements({ status: 'active' }) answers syncRevenue with.
ActivePlacements ==
    {<<>>, <<WebhookPlacements[1]>>, <<WebhookPlacements[1], WebhookPlacements[2]>>}

\* The deals of the CRM and the connected portal when the webhooks start.
WebhookInit ==
    /\ op = "idle"
    /\ input = <<>>
    /\ output = <<>>
    /\ placementsAfter = <<>>
    /\ deals \in WebhookDeals
    /\ crmCalls = <<>>
    /\ tasks = <<>>
    /\ tokenStore = storeTokens(<<>>, "portal-1",
                                Tokens("t1", "r1", StoredLifetime, ""), 0)
    /\ session = <<>>
    /\ clock = 0
    /\ ledger = [received |-> 0]

UnchangedByWebhook ==
    UNCHANGED <<op, input, placementsAfter, crmCalls, tokenStore, session, clock>>

\* The position of the handler after the header and token checks.
firstStep(request) ==
    CASE request.event \in {"job.created", "job.updated", "job.filled"} -> "job.search"
      [] request.event \in {"placement.created", "placement.updated",
                            "placement.ended"} -> "placement.search"
      [] request.event = "placement.revenue_updated" -> "revenue.fetch"
      [] OTHER -> "respond"

\* The events of one route do not reach the cases of the other.
Requests ==
    JobRequests \cup PlacementRequests

\* A request arrives with a header missing: 400.
WebhookRejectsHeaders ==
    /\ ledger.received < MaxRequests
    /\ \E request \in Requests :
          /\ ~Truthy(request.portalId) \/ ~Truthy(request.apiKey)
          /\ output' = WebhookResponse(request, 400, MissingHeaders, <<>>)
    /\ ledger' = [received |-> ledger.received + 1]
    /\ UNCHANGED <<deals, tasks>>
    /\ UnchangedByWebhook

\* A request arrives for a portal that has no tokens: 401.
WebhookRejectsPortal ==
    /\ ledger.received < MaxRequests
    /\ \E request \in Requests :
          /\ Truthy(request.portalId) /\ Truthy(request.apiKey)
          /\ getTokens(tokenStore, request.portalId.s) = Null
          /\ output' = WebhookResponse(request, 401, NotAuthenticated, <<>>)
    /\ ledger' = [received |-> ledger.received + 1]
    /\ UNCHANGED <<deals, tasks>>
    /\ UnchangedByWebhook

\* A request arrives with an event that no case of the switch takes: 200.
WebhookIgnores ==
    /\ ledger.received < MaxRequests
    /\ \E request \in Requests :
          /\ Truthy(request.portalId) /\ Truthy(request.apiKey)
          /\ getTokens(tokenStore, request.portalId.s) # Null
          /\ firstStep(request) = "respond"
          /\ output' = WebhookResponse(request, 200, Success, <<>>)
    /\ ledger' = [received |-> ledger.received + 1]
    /\ UNCHANGED <<deals, tasks>>
    /\ UnchangedByWebhook

\* A request arrives and its handler runs up to its first await.
WebhookStarts ==
    /\ ledger.received < MaxRequests
    /\ \E request \in Requests :
          /\ Truthy(request.portalId) /\ Truthy(request.apiKey)
          /\ getTokens(tokenStore, request.portalId.s) # Null
          /\ firstStep(request) # "respond"
          /\ tasks' = Append(tasks,
                 WebhookTask(request, firstStep(request),
                             IF firstStep(request) = "placement.search"
                                 THEN <<request.data>> ELSE <<>>))
    /\ ledger' = [received |-> ledger.received + 1]
    /\ UNCHANGED <<deals, output>>
    /\ UnchangedByWebhook

\* The tasks without the k-th.
without(k) == [i \in 1..(Len(tasks) - 1) |-> IF i < k THEN tasks[i] ELSE tasks[i + 1]]

\* The handler of task k answers.
Finish(k, status, body, calls) ==
    /\ output' = WebhookResponse(tasks[k].request, status, body, calls)
    /\ tasks' = without(k)

\* The handler of task k goes on after a sync: with the next placement to
\* sync, or with its answer.
Continue(k, calls, rest) ==
    IF rest = <<>>
        THEN Finish(k, 200, Success, calls)
        ELSE /\ tasks' = [tasks EXCEPT ![k] =
                    [@ EXCEPT !.pc = "placement.search", !.rest = rest,
                              !.target = 0, !.calls = calls]]
             /\ UNCHANGED output

\* The deal a search result names for update, 0 when it is empty.
targetOf(found) == IF Len(found) > 0 THEN found[1].id ELSE 0

\* The write a sync issues after its searches, and the call it makes.
written(store, target, dealProperties) ==
    IF target > 0 THEN updateDeal(store, target, dealProperties)
    ELSE createDeal(store, dealProperties)
writeCall(target, dealProperties) ==
    IF target > 0 THEN UpdateCall(target, dealProperties)
    ELSE CreateCall(dealProperties)

\* syncSingleJob: searchDeals('trackerrms_job_id', job.id) is served.
JobSearch ==
    \E k \in 1..Len(tasks) :
        /\ tasks[k].pc = "job.search"
        /\ LET job == tasks[k].request.data
               existingDeals == searchDeals(deals, "trackerrms_job_id", job.id)
           IN  tasks' = [tasks EXCEPT ![k] =
                   [@ EXCEPT !.pc = "job.write", !.target = targetOf(existingDeals),
                             !.calls = Append(@, SearchCall("trackerrms_job_id", job.id))]]
        /\ UNCHANGED <<deals, output, ledger>>
        /\ UnchangedByWebhook

\* syncSingleJob: updateDeal or createDeal is served; job.filled goes on with
\* the placements of the job.
JobWrite ==
    \E k \in 1..Len(tasks) :
        /\ tasks[k].pc = "job.write"
        /\ LET job == tasks[k].request.data
               dealProperties == mapJobToDealProperties(job)
               placements == IF tasks[k].request.event = "job.filled"
                                 /\ Truthy(job.placements)
                             THEN job.placements.items ELSE <<>>
           IN  /\ deals' = written(deals, tasks[k].target, dealProperties)
               /\ Continue(k, Append(tasks[k].calls,
                                     writeCall(tasks[k].target, dealProperties)),
                           placements)
        /\ UNCHANGED ledger
        /\ UnchangedByWebhook

\* syncSinglePlacement: searchDeals('trackerrms_placement_id', placement.id)
\* is served.
PlacementSearch ==
    \E k \in 1..Len(tasks) :
        /\ tasks[k].pc = "placement.search"
        /\ LET placement == Head(tasks[k].rest)
               existingDeals ==
                   searchDeals(deals, "trackerrms_placement_id", placement.id)
           IN  tasks' = [tasks EXCEPT ![k] =
                   [@ EXCEPT !.pc = IF Len(existingDeals) = 0 /\ Truthy(placement.jobId)
                                        THEN "placement.jobSearch"
                                        ELSE "placement.write",
                             !.target = targetOf(existingDeals),
                             !.calls = Append(@, SearchCall("trackerrms_placement_id",
                                                           placement.id))]]
        /\ UNCHANGED <<deals, output, ledger>>
        /\ UnchangedByWebhook

\* syncSinglePlacement: searchDeals('trackerrms_job_id', placement.jobId) is
\* served.
PlacementJobSearch ==
    \E k \in 1..Len(tasks) :
        /\ tasks[k].pc = "placement.jobSearch"
        /\ LET placement == Head(tasks[k].rest)
               jobDeals == searchDeals(deals, "trackerrms_job_id", placement.jobId)
           IN  tasks' = [tasks EXCEPT ![k] =
                   [@ EXCEPT !.pc = "placement.write", !.target = targetOf(jobDeals),
                             !.calls = Append(@, SearchCall("trackerrms_job_id",
                                                           placement.jobId))]]
        /\ UNCHANGED <<deals, output, ledger>>
        /\ UnchangedByWebhook

\* syncSinglePlacement: updateDeal or createDeal is served.
PlacementWrite ==
    \E k \in 1..Len(tasks) :
        /\ tasks[k].pc = "placement.write"
        /\ LET dealProperties == mapPlacementToDealProperties(Head(tasks[k].rest))
           IN  /\ deals' = written(deals, tasks[k].target, dealProperties)
               /\ Continue(k, Append(tasks[k].calls,
                                     writeCall(tasks[k].target, dealProperties)),
                           Tail(tasks[k].rest))
        /\ UNCHANGED ledger
        /\ UnchangedByWebhook

\* A call of syncSingleJob or syncSinglePlacement, or the getPlacements of
\* syncRevenue, raises: the catch of the route answers 500.
WebhookCallFails ==
    \E k \in 1..Len(tasks) :
        /\ tasks[k].pc \in {"job.search", "job.write", "placement.search",
                            "placement.jobSearch", "placement.write", "revenue.fetch"}
        /\ Finish(k, 500, ProcessingFailed, tasks[k].calls)
        /\ UNCHANGED <<deals, ledger>>
        /\ UnchangedByWebhook

\* syncRevenue: getPlacements({ status: 'active' }) is served.
RevenueFetch ==
    \E k \in 1..Len(tasks) :
        /\ tasks[k].pc = "revenue.fetch"
        /\ \E placements \in ActivePlacements :
              IF placements = <<>>
                  THEN Finish(k, 200, Success, <<[call |-> "getPlacements"]>>)
                  ELSE /\ tasks' = [tasks EXCEPT ![k] =
                              [@ EXCEPT !.pc = "revenue.loop", !.rest = placements,
                                        !.calls = <<[call |-> "getPlacements"]>>]]
                       /\ UNCHANGED output
        /\ UNCHANGED <<deals, ledger>>
        /\ UnchangedByWebhook

\* The handler of task k after a turn of the loop of syncRevenue.
RevenueContinue(k, calls) ==
    IF Len(tasks[k].rest) = 1
        THEN Finish(k, 200, Success, calls)
        ELSE /\ tasks' = [tasks EXCEPT ![k] =
                    [@ EXCEPT !.rest = Tail(@), !.calls = calls]]
             /\ UNCHANGED output

\* syncRevenue: one turn of the loop, its calls succeeding: the revenue of
\* the placement is read, its deal searched and, when there is one, updated.
RevenueStep ==
    \E k \in 1..Len(tasks) :
        /\ tasks[k].pc = "revenue.loop"
        /\ \E revenueData \in RevenueSamples :
              LET placement == Head(tasks[k].rest)
                  found == searchDeals(deals, "trackerrms_placement_id", placement.id)
                  reads == <<[call |-> "getPlacementRevenue"],
                             SearchCall("trackerrms_placement_id", placement.id)>>
              IN  IF Len(found) > 0
                      THEN /\ deals' = updateDeal(deals, found[1].id,
                                                  revenueProperties(revenueData))
                           /\ RevenueContinue(k, tasks[k].calls \o reads \o
                                  <<UpdateCall(found[1].id,
                                               revenueProperties(revenueData))>>)
                      ELSE /\ deals' = deals
                           /\ RevenueContinue(k, tasks[k].calls \o reads)
        /\ UNCHANGED ledger
        /\ UnchangedByWebhook

\* syncRevenue: one turn of the loop, a call of it raising: the error is
\* counted and the loop goes on.
RevenueStepFails ==
    \E k \in 1..Len(tasks) :
        /\ tasks[k].pc = "revenue.loop"
        /\ RevenueContinue(k, tasks[k].calls)
        /\ UNCHANGED <<deals, ledger>>
        /\ UnchangedByWebhook

WebhookNext ==
    \/ WebhookRejectsHeaders
    \/ WebhookRejectsPortal
    \/ WebhookIgnores
    \/ WebhookStarts
    \/ JobSearch
    \/ JobWrite
    \/ PlacementSearch
    \/ PlacementJobSearch
    \/ PlacementWrite
    \/ WebhookCallFails
    \/ RevenueFetch
    \/ RevenueStep
    \/ RevenueStepFails

WebhookSpec == WebhookInit /\ [][WebhookNext]_vars

\* A response has been sent.
Answered == DOMAIN output # {}

\* The request carries both headers.
HasHeaders(request) == request.portalId # Undefined /\ request.apiKey # Undefined

\* The token store has an entry for the portal of the request.
PortalConnected(request) ==
    \E k \in 1..Len(tokenStore) : tokenStore[k].portalId = request.portalId.s

\* The calls of a job.filled request after those of the job's own sync,
\* the searches by job id that a placement's sync makes left out.
PlacementCallsOf(calls) ==
    LET NotJobSearch(crmCall) ==
            ~(crmCall.call = "searchDeals" /\ crmCall.propertyName = "trackerrms_job_id")
    IN  SelectSeq(SubSeq(calls, 3, Len(calls)), NotJobSearch)

\* The calls are those of the job's sync followed by those of each
\* placement's sync, in the order of the list.
JobThenPlacements(calls, job, placements) ==
    /\ Len(calls) >= 2
    /\ calls[1] = SearchCall("trackerrms_job_id", job.id)
    /\ IsWrite(calls[2])
    /\ calls[2].properties = mapJobToDealProperties(job)
    /\ Len(PlacementCallsOf(calls)) = 2 * Len(placements)
    /\ \A i \in 1..Len(placements) :
           /\ PlacementCallsOf(calls)[2 * i - 1] =
                  SearchCall("trackerrms_placement_id", placements[i].id)
           /\ IsWrite(PlacementCallsOf(calls)[2 * i])
           /\ PlacementCallsOf(calls)[2 * i].properties =
                  mapPlacementToDealProperties(placements[i])

\* A job.filled request with a list of placements was answered 200.
FilledAnswered ==
    /\ Answered
    /\ output.status = 200
    /\ output.request.event = "job.filled"
    /\ output.request.data.placements # Undefined

\* C24: a webhook with the x-portal-id or x-trackerrms-api-key header missing
\* is answered 400 'Missing portal ID ...', one for a portal without stored
\* tokens 401, and in both cases no CRM call is made for it; only requests
\* of a connected portal are in flight; a job.filled request answered 200
\* synced the job first and then its placements in list order.
WebhookSyncsOnlyAuthenticated ==
    /\ \A k \in 1..Len(tasks) :
           HasHeaders(tasks[k].request) /\ PortalConnected(tasks[k].request)
    /\ Answered =>
           /\ ~HasHeaders(output.request) =>
                  /\ output.status = 400
                  /\ output.body = [error |-> Str("Missing portal ID or TrackerRMS API key")]
                  /\ output.calls = <<>>
           /\ (HasHeaders(output.request) /\ ~PortalConnected(output.request)) =>
                  /\ output.status = 401
                  /\ output.calls = <<>>
           /\ FilledAnswered =>
                  JobThenPlacements(output.calls, output.request.data,
                                    output.request.data.placements.items)

\* The second request received, a job.filled with two placements, was
\* answered 200 after six CRM calls or more.
WebhookSyncsOnlyAuthenticatedWitness ==
    /\ FilledAnswered
    /\ Len(output.request.data.placements.items) = 2
    /\ Len(output.calls) >= 6
    /\ ledger.received = 2
    /\ Len(deals) <= 1

\* A deal that a job's sync created and no placement's sync has written.
IsJobDeal(deal) ==
    /\ "trackerrms_job_id" \in DOMAIN deal.properties
    /\ "trackerrms_placement_id" \notin DOMAIN deal.properties

\* C26: syncSingleJob is an upsert keyed by trackerrms_job_id: whatever the
\* interleaving of the webhook requests that call it, the CRM holds at most
\* one deal created for a job id.
OneDealPerJob ==
    \A i, j \in 1..Len(deals) :
        (/\ IsJobDeal(deals[i])
         /\ IsJobDeal(deals[j])
         /\ deals[i].properties["trackerrms_job_id"] =
                deals[j].properties["trackerrms_job_id"]) => i = j

----------------------------------------------------------------------------
(* auth/routes.js and getValidAccessToken of oauth.js: the OAuth flow of   *)
(* one browser session, logout, and token refresh.  The callback suspends  *)
(* at the exchange of the code, getValidAccessToken at the refresh; other  *)
(* requests and calls run in between.  op names the last step taken.       *)

\* uuidv4(): the states /authorize issues, each one new.
StateNames == <<"s1", "s2">>

\* req.query.state and req.query.code of a callback.
QueryStates == {Undefined, Str("s1"), Str("s2"), Str("forged")}
QueryCodes == {Undefined, Str("c1")}

\* What the token endpoint answers an exchange and a refresh with.
ExchangeAnswers ==
    {Tokens("t2", "r2", expiresIn, hubId) :
        expiresIn \in {ShortLifetime, StoredLifetime}, hubId \in {"", "portal-1"}}
RefreshAnswers == {Tokens("t3", "r3", StoredLifetime, "")}

\* The instants of the model: around the instant from which a token stored
\* at 0 for StoredLifetime counts as expired.
ClockValues ==
    {0, StoredLifetime - ExpiryBuffer - 1, StoredLifetime - ExpiryBuffer, StoredLifetime}

\* A new session, or one whose OAuth flow has connected portal-1.
NewSession == [oauthState |-> Undefined, portalId |-> Undefined]
NoHistory == [calls |-> 0, issued |-> {}, accepted |-> <<>>, loggedOut |-> {}]
AuthInit ==
    /\ op = "idle"
    /\ input = <<>>
    /\ output = <<>>
    /\ placementsAfter = <<>>
    /\ deals = <<>>
    /\ crmCalls = <<>>
    /\ tasks = <<>>
    /\ clock = 0
    /\ ledger = NoHistory
    /\ \/ /\ tokenStore = <<>>
          /\ session = NewSession
       \/ /\ tokenStore = storeTokens(<<>>, "portal-1",
                              Tokens("t1", "r1", StoredLifetime, "portal-1"), 0)
          /\ session = [NewSession EXCEPT !.portalId = Str("portal-1")]

UnchangedByAuth == UNCHANGED <<placementsAfter, deals>>

\* ledger.calls counts the requests and calls; issued are the states that
\* /authorize has issued; accepted the states of the callbacks that went on
\* to the exchange, in order; loggedOut the portals whose logout completed
\* with no callback storing tokens for them since.
Counted == [ledger EXCEPT !.calls = @ + 1]

\* GET /oauth/authorize
Authorize ==
    /\ ledger.calls < MaxAuthCalls
    /\ Cardinality(ledger.issued) < Len(StateNames)
    /\ LET state == StateNames[Cardinality(ledger.issued) + 1]
       IN  /\ session' = [session EXCEPT !.oauthState = Str(state)]
           /\ ledger' = [Counted EXCEPT !.issued = @ \cup {state}]
           /\ input' = <<>>
           /\ output' = Response(302, [state |-> Str(state)])
    /\ op' = "authorize"
    /\ UNCHANGED <<tokenStore, tasks, crmCalls, clock>>
    /\ UnchangedByAuth

\* GET /oauth/callback: state !== req.session.oauthState
CallbackRejectsState ==
    /\ ledger.calls < MaxAuthCalls
    /\ \E state \in QueryStates, code \in QueryCodes :
          /\ state # session.oauthState
          /\ input' = [state |-> state, code |-> code]
    /\ output' = Response(400, [error |-> Str("Invalid state parameter")])
    /\ op' = "callbackRejected"
    /\ ledger' = Counted
    /\ UNCHANGED <<session, tokenStore, tasks, crmCalls, clock>>
    /\ UnchangedByAuth

\* GET /oauth/callback: the state passes and is cleared, there is no code.
CallbackRejectsCode ==
    /\ ledger.calls < MaxAuthCalls
    /\ \E state \in QueryStates, code \in QueryCodes :
          /\ state = session.oauthState
          /\ ~Truthy(code)
          /\ input' = [state |-> state, code |-> code]
    /\ session' = [session EXCEPT !.oauthState = Undefined]
    /\ output' = Response(400, [error |-> Str("No authorization code provided")])
    /\ op' = "callbackRejected"
    /\ ledger' = Counted
    /\ UNCHANGED <<tokenStore, tasks, crmCalls, clock>>
    /\ UnchangedByAuth

\* GET /oauth/callback: the state passes and is cleared, the code is sent to
\* the token endpoint.
CallbackExchanges ==
    /\ ledger.calls < MaxAuthCalls
    /\ \E state \in QueryStates, code \in QueryCodes :
          /\ state = session.oauthState
          /\ Truthy(code)
          /\ input' = [state |-> state, code |-> code]
          /\ tasks' = Append(tasks, [pc |-> "exchange", state |-> state, code |-> code])
          /\ crmCalls' = Append(crmCalls, [call |-> "exchange", code |-> code])
          /\ ledger' = [Counted EXCEPT !.accepted = Append(@, state)]
    /\ session' = [session EXCEPT !.oauthState = Undefined]
    /\ output' = <<>>
    /\ op' = "callbackExchanges"
    /\ UNCHANGED <<tokenStore, clock>>
    /\ UnchangedByAuth

\* tokens.hubId || 'default'
portalOf(tokens) == IF tokens.hubId = "" THEN "default" ELSE tokens.hubId

\* GET /oauth/callback: the exchange answers; the tokens are stored.
CallbackCompletes ==
    \E k \in 1..Len(tasks) :
        /\ tasks[k].pc = "exchange"
        /\ \E tokens \in ExchangeAnswers :
              /\ tokenStore' = storeTokens(tokenStore, portalOf(tokens), tokens, clock)
              /\ session' = [session EXCEPT !.portalId = Str(portalOf(tokens))]
              /\ ledger' = [ledger EXCEPT !.loggedOut = @ \ {portalOf(tokens)}]
              /\ input' = [tokens |-> tokens]
        /\ tasks' = without(k)
        /\ output' = Response(302, [location |-> Str("/dashboard")])
        /\ op' = "callbackCompleted"
        /\ UNCHANGED <<crmCalls, clock>>
        /\ UnchangedByAuth

\* GET /oauth/callback: the exchange raises: 500.
CallbackFails ==
    \E k \in 1..Len(tasks) :
        /\ tasks[k].pc = "exchange"
        /\ tasks' = without(k)
        /\ input' = <<>>
        /\ output' = Response(500, [error |-> Str("Failed to complete authentication")])
        /\ op' = "callbackFailed"
        /\ UNCHANGED <<session, tokenStore, crmCalls, clock, ledger>>
        /\ UnchangedByAuth

\* POST /oauth/logout
Logout ==
    /\ ledger.calls < MaxAuthCalls
    /\ IF Truthy(session.portalId)
           THEN /\ tokenStore' = removeTokens(tokenStore, session.portalId.s)
                /\ session' = [session EXCEPT !.portalId = Undefined]
                /\ ledger' = [Counted EXCEPT !.loggedOut = @ \cup {session.portalId.s}]
           ELSE /\ UNCHANGED <<tokenStore, session>>
                /\ ledger' = Counted
    /\ input' = <<>>
    /\ output' = Response(200, [success |-> TRUE])
    /\ op' = "logout"
    /\ UNCHANGED <<tasks, crmCalls, clock>>
    /\ UnchangedByAuth

\* getValidAccessToken(portalId), up to its return, its throw or its await.
GetValidAccessToken ==
    /\ ledger.calls < MaxAuthCalls
    /\ \E portalId \in {"portal-1", "default"} :
          LET tokens == getTokens(tokenStore, portalId)
          IN  /\ input' = [portalId |-> portalId]
              /\ IF tokens = Null
                     THEN /\ output' = Raised("No tokens found for portal")
                          /\ UNCHANGED <<tasks, crmCalls>>
                 ELSE IF isTokenExpired(tokens, clock)
                     THEN /\ output' = <<>>
                          /\ tasks' = Append(tasks, [pc |-> "refresh", portalId |-> portalId])
                          /\ crmCalls' = Append(crmCalls,
                                 [call |-> "refresh", refreshToken |-> tokens.refreshToken])
                     ELSE /\ output' = Returned(tokens.accessToken)
                          /\ UNCHANGED <<tasks, crmCalls>>
    /\ op' = "getValidAccessToken"
    /\ ledger' = Counted
    /\ UNCHANGED <<session, tokenStore, clock>>
    /\ UnchangedByAuth

\* getValidAccessToken: the refresh answers; the new tokens are stored and
\* the stored access token is returned.
RefreshCompletes ==
    \E k \in 1..Len(tasks) :
        /\ tasks[k].pc = "refresh"
        /\ \E newTokens \in RefreshAnswers :
              /\ tokenStore' = storeTokens(tokenStore, tasks[k].portalId, newTokens, clock)
              /\ input' = [portalId |-> tasks[k].portalId, tokens |-> newTokens]
        /\ output' = Returned(getTokens(tokenStore', tasks[k].portalId).accessToken)
        /\ tasks' = without(k)
        /\ op' = "refreshCompleted"
        /\ UNCHANGED <<session, crmCalls, clock, ledger>>
        /\ UnchangedByAuth

\* getValidAccessToken: the refresh raises, and so does the call.
RefreshFails ==
    \E k \in 1..Len(tasks) :
        /\ tasks[k].pc = "refresh"
        /\ input' = [portalId |-> tasks[k].portalId]
        /\ output' = Raised("refresh failed")
        /\ tasks' = without(k)
        /\ op' = "refreshFailed"
        /\ UNCHANGED <<session, tokenStore, crmCalls, clock, ledger>>
        /\ UnchangedByAuth

\* Time passes.
Tick ==
    /\ \E later \in ClockValues :
          /\ later > clock
          /\ clock' = later
    /\ op' = "tick"
    /\ UNCHANGED <<input, output, session, tokenStore, tasks, crmCalls, ledger>>
    /\ UnchangedByAuth

AuthNext ==
    \/ Authorize
    \/ CallbackRejectsState
    \/ CallbackRejectsCode
    \/ CallbackExchanges
    \/ CallbackCompletes
    \/ CallbackFails
    \/ Logout
    \/ GetValidAccessToken
    \/ RefreshCompletes
    \/ RefreshFails
    \/ Tick

AuthSpec == AuthInit /\ [][AuthNext]_vars

\* C27: the callback goes on to the exchange of the code, and so to storing
\* tokens, only with a state that /authorize issued in the session and that
\* no callback consumed before: never with an absent or foreign state, and
\* never twice with one state.
CallbackNeedsIssuedState ==
    /\ \A i \in 1..Len(ledger.accepted) :
           /\ ledger.accepted[i].tag = "string"
           /\ ledger.accepted[i].s \in ledger.issued
    /\ \A i, j \in 1..Len(ledger.accepted) :
           ledger.accepted[i] = ledger.accepted[j] => i = j

\* C28: getValidAccessToken raises when the portal has no tokens; returns
\* the stored access token, calling nothing, when now is more than 5 minutes
\* before expiresAt; otherwise calls the refresh, and when that answers
\* stores the new tokens and returns the new access token; when the refresh
\* raises, so does the call, and the token store is as it was.
GetValidAccessTokenContract ==
    [][/\ op' = "getValidAccessToken" =>
              LET before == getTokens(tokenStore, input'.portalId)
              IN  /\ tokenStore' = tokenStore
                  /\ before = Null =>
                         /\ output'.threw
                         /\ crmCalls' = crmCalls
                         /\ tasks' = tasks
                  /\ (before # Null /\ clock < before.expiresAt - 5) =>
                         /\ output' = Returned(before.accessToken)
                         /\ crmCalls' = crmCalls
                         /\ tasks' = tasks
                  /\ (before # Null /\ clock >= before.expiresAt - 5) =>
                         /\ crmCalls' = Append(crmCalls,
                                [call |-> "refresh", refreshToken |-> before.refreshToken])
                         /\ Len(tasks') = Len(tasks) + 1
       /\ op' = "refreshCompleted" =>
              /\ output' = Returned(input'.tokens.accessToken)
              /\ getTokens(tokenStore', input'.portalId) # Null
              /\ getTokens(tokenStore', input'.portalId).accessToken =
                     input'.tokens.accessToken
              /\ getTokens(tokenStore', input'.portalId).refreshToken =
                     input'.tokens.refreshToken
              /\ crmCalls' = crmCalls
       /\ op' = "refreshFailed" =>
              /\ output'.threw
              /\ tokenStore' = tokenStore
      ]_vars

\* A token stored for StoredLifetime was found expired five minutes before
\* its expiry, the refresh answered, and the new access token was returned
\* and is the stored one.
GetValidAccessTokenContractWitness ==
    /\ op = "refreshCompleted"
    /\ clock = StoredLifetime - ExpiryBuffer
    /\ Len(crmCalls) = 1
    /\ crmCalls[1] = [call |-> "refresh", refreshToken |-> "r1"]
    /\ output = Returned("t3")
    /\ getTokens(tokenStore, "portal-1") # Null
    /\ getTokens(tokenStore, "portal-1").accessToken = "t3"

\* C29: once a logout has removed the tokens of a portal, getTokens of the
\* portal stays null until an OAuth callback stores tokens for it, whatever
\* getValidAccessToken calls were awaiting a refresh at the logout.
LogoutIsDurable ==
    \A portalId \in ledger.loggedOut : getTokens(tokenStore, portalId) = Null

====
